---- MODULE Spec2Model ----
(***************************************************************************)
(* DomainMapper: passive aggregation (passive_enum.py), active brute-force *)
(* resolution (active_enum.py), takeover classification                    *)
(* (takeover_detect.py), change detection (change_detect.py), the CLI      *)
(* driver (main.py), the API scan task (backend/server.py) and the         *)
(* WebSocket broadcast (backend/websocket_manager.py), as state machines   *)
(* over Python strings.                                                    *)
(*                                                                         *)
(* Python str values are TLA+ strings; a character is a string of length 1.*)
(***************************************************************************)
EXTENDS Integers, Sequences, FiniteSets, TLC

VARIABLES
    \* ---- passive_enum(domain, sources) ----
    p_pc,          \* "loop" | "done" | "interrupted"
    p_sources,     \* the `sources` argument after the None default is applied
    p_i,           \* index of the next source_name of the for loop
    all_subs,      \* the set all_subs of passive_enum
    p_result,      \* the returned list (sorted(all_subs))
    p_reported,    \* history: raw hostnames the queried sources reported
    p_okUnion,     \* history: union of the sets of the sources that did not fail
    \* ---- active_enum(domain, wordlist_path) ----
    a_pc,          \* "load" | "generate" | "select" | "pool" | "done" | "raised"
    a_file,        \* the wordlist file: [kind, lines]
    a_env,         \* the machine and the network: [dnsx_on_path, resolvable]
    a_tool,        \* what became of the dnsx subprocess: "unused" | "failed" | "ran"
    words,         \* the list words
    subdomains,    \* the list subdomains
    a_results,     \* executor.map results, one slot per candidate
    live_subs,     \* the returned list
    \* ---- check_subdomain_takeover(subdomain) ----
    t_pc,          \* "resolve" | "check" | "https" | "http" | "done"
    t_dns,         \* what DNS answers: [ip, cname]
    result,        \* the result dict
    t_hist,        \* history: the requests.get calls made, with their outcomes
    \* ---- main() over a history directory ----
    m_pc,          \* position of main(): "parse" | "passive" | "wordlist" | "active" |
                   \* "dedup" | "changes" | "save" | "exit" | "fatal"
    m_args,        \* the parsed command line
    m_scan,        \* locals of main(): all_subdomains, passive_results, change_data
    history,       \* HISTORY_DIR: file name -> lines
    clock,         \* datetime.now(), in seconds
    m_hist,        \* history: scans started, the list the last save_results wrote,
                   \* whether every scan so far ended with --changes and a save
    \* ---- the merge of main(): extend, mark the sources, deduplicate ----
    g_pc,          \* "passive" | "active" | "dedup" | "done"
    g_in,          \* what the two enumerations returned: [passive_results, active_results]
    all_subdomains,\* the list all_subdomains of main()
    scan_data,     \* scan_data: [sources, passive_count, active_count, subdomains]
    \* ---- detect_changes(domain, current_subdomains) over a directory ----
    d_pc,          \* "call" | "done"
    d_in,          \* [dir, current_subdomains]
    d_out,         \* the returned dict
    \* ---- scan_takeover(subdomains, threads) ----
    b_pc,          \* "submit" | "pool" | "done"
    b_subdomains,  \* the argument subdomains
    b_futures,     \* one future per submitted call: [state, outcome]
    results,       \* the list results, in completion order
    \* ---- backend/server.py: create_scan and run_scan_task ----
    s_pc,          \* position of the task: "create" | "start" | "modern" | "passive" |
                   \* "active" | "dedup" | "fingerprint" | "threat" | "takeover" |
                   \* "store" | "insert" | "done"
    request,       \* the ScanRequest
    s_env,         \* what the enumerators and the database do in this run
    s_task,        \* locals of run_scan_task: all_subdomains, scan_data
    scans,         \* db.scans: _id -> document
    s_hist,        \* history: enumerators invoked, statuses and progress written
    \* ---- backend/websocket_manager.py: ConnectionManager ----
    w_pc,          \* "call" | "loop" | "done"
    active_connections, \* client ids with a stored WebSocket
    scan_subscriptions, \* scan_id -> list of client ids
    w_env,         \* client ids whose connection accepts a send
    w_i,           \* position of the list iterator of the for loop
    w_hist,        \* history: subscribers at the call, sends attempted, messages received
    \* ---- utils.deduplicate_subdomains ----
    u_pc,          \* "first" | "second" | "done"
    u_in,          \* the list L and a rearranged, repetition-extended copy P
    u_out,         \* the returned lists
    \* ---- main(): the enrichment passes ----
    e_pc,          \* "fingerprint" | "threat" | "takeover" | "done" | "fatal"
    e_args,        \* the parsed command line: [threads, fingerprint, threat, takeover]
    e_subs,        \* all_subdomains when the passes start
    e_hist         \* history: the pools started, with their widths

p_vars == <<p_pc, p_sources, p_i, all_subs, p_result, p_reported, p_okUnion>>
a_vars == <<a_pc, a_file, a_env, a_tool, words, subdomains, a_results, live_subs>>
t_vars == <<t_pc, t_dns, result, t_hist>>
m_vars == <<m_pc, m_args, m_scan, history, clock, m_hist>>
g_vars == <<g_pc, g_in, all_subdomains, scan_data>>
d_vars == <<d_pc, d_in, d_out>>
b_vars == <<b_pc, b_subdomains, b_futures, results>>
s_vars == <<s_pc, request, s_env, s_task, scans, s_hist>>
w_vars == <<w_pc, active_connections, scan_subscriptions, w_env, w_i, w_hist>>
u_vars == <<u_pc, u_in, u_out>>
e_vars == <<e_pc, e_args, e_subs, e_hist>>
vars == <<p_vars, a_vars, t_vars, m_vars, g_vars, d_vars, b_vars, s_vars, w_vars, u_vars, e_vars>>

None == "<None>"

(***************************************************************************)
(* Python str operations                                                   *)
(***************************************************************************)
Char(s, i) == SubSeq(s, i, i)

ASCII_UPPERCASE == "ABCDEFGHIJKLMNOPQRSTUVWXYZ"
ASCII_LOWERCASE == "abcdefghijklmnopqrstuvwxyz"
DIGITS == "0123456789"

\* Code-point order of the characters the model uses (sorted() compares by it).
CODE_POINTS ==
    "\t\n !#'*+,-./" \o DIGITS \o ":<=>" \o ASCII_UPPERCASE \o "_" \o ASCII_LOWERCASE

Ord(c) == CHOOSE i \in 1..Len(CODE_POINTS) : Char(CODE_POINTS, i) = c

InStr(c, s) == \E i \in 1..Len(s) : Char(s, i) = c

lower_char(c) ==
    IF InStr(c, ASCII_UPPERCASE)
    THEN Char(ASCII_LOWERCASE, CHOOSE i \in 1..26 : Char(ASCII_UPPERCASE, i) = c)
    ELSE c

RECURSIVE lower(_)
lower(s) == IF s = "" THEN "" ELSE lower_char(Head(s)) \o lower(Tail(s))

WHITESPACE == " \t\n"

RECURSIVE lstrip(_)
lstrip(s) == IF s # "" /\ InStr(Head(s), WHITESPACE) THEN lstrip(Tail(s)) ELSE s

RECURSIVE rstrip(_)
rstrip(s) ==
    IF s # "" /\ InStr(Char(s, Len(s)), WHITESPACE)
    THEN rstrip(SubSeq(s, 1, Len(s) - 1))
    ELSE s

strip(s) == rstrip(lstrip(s))

startswith(s, p) == Len(s) >= Len(p) /\ SubSeq(s, 1, Len(p)) = p

endswith(s, p) == Len(s) >= Len(p) /\ SubSeq(s, Len(s) - Len(p) + 1, Len(s)) = p

\* `p in s`
contains(s, p) == \E i \in 1..(Len(s) - Len(p) + 1) : SubSeq(s, i, i + Len(p) - 1) = p

\* s.find(p): the first index (1-based) of p in s, 0 when absent
find(s, p) ==
    IF contains(s, p)
    THEN CHOOSE i \in 1..(Len(s) - Len(p) + 1) :
            /\ SubSeq(s, i, i + Len(p) - 1) = p
            /\ \A j \in 1..(i - 1) : SubSeq(s, j, j + Len(p) - 1) # p
    ELSE 0

\* s.split(sep): a list with one more element than s has sep
RECURSIVE split(_, _)
split(s, sep) ==
    LET i == find(s, sep)
    IN  IF i = 0 THEN <<s>>
        ELSE <<SubSeq(s, 1, i - 1)>> \o split(SubSeq(s, i + Len(sep), Len(s)), sep)

\* sep.join(list)
RECURSIVE join(_, _)
join(sep, list) ==
    IF list = <<>> THEN ""
    ELSE IF Len(list) = 1 THEN list[1]
    ELSE list[1] \o sep \o join(sep, Tail(list))

\* s.replace(old, new), left to right, non-overlapping
RECURSIVE replace(_, _, _)
replace(s, old, new) ==
    LET i == find(s, old)
    IN  IF i = 0 THEN s
        ELSE SubSeq(s, 1, i - 1) \o new \o replace(SubSeq(s, i + Len(old), Len(s)), old, new)

\* a < b for str
RECURSIVE str_less(_, _)
str_less(a, b) ==
    IF b = "" THEN FALSE
    ELSE IF a = "" THEN TRUE
    ELSE IF Head(a) = Head(b) THEN str_less(Tail(a), Tail(b))
    ELSE Ord(Head(a)) < Ord(Head(b))

\* sorted(S) of a set of str
RECURSIVE sorted(_)
sorted(S) ==
    IF S = {} THEN <<>>
    ELSE LET m == CHOOSE x \in S : \A y \in S \ {x} : str_less(x, y)
         IN  <<m>> \o sorted(S \ {m})

Range(list) == {list[i] : i \in 1..Len(list)}

Max(S) == CHOOSE x \in S : \A y \in S : y <= x

Min(S) == CHOOSE x \in S : \A y \in S : x <= y

(***************************************************************************)
(* A component that is not running                                         *)
(***************************************************************************)
PassiveIdle ==
    /\ p_pc = "idle" /\ p_sources = <<>> /\ p_i = 0 /\ all_subs = {} /\ p_result = <<>>
    /\ p_reported = {} /\ p_okUnion = {}

ActiveIdle ==
    /\ a_pc = "idle" /\ a_file = <<>> /\ a_env = <<>> /\ a_tool = "unused" /\ words = <<>> /\ subdomains = <<>>
    /\ a_results = <<>> /\ live_subs = <<>>

TakeoverIdle ==
    /\ t_pc = "idle" /\ t_dns = <<>> /\ result = <<>> /\ t_hist = <<>>

MainIdle ==
    /\ m_pc = "idle" /\ m_args = <<>> /\ m_scan = <<>> /\ history = <<>> /\ clock = 0
    /\ m_hist = <<>>

MergeIdle ==
    /\ g_pc = "idle" /\ g_in = <<>> /\ all_subdomains = <<>> /\ scan_data = <<>>

ChangesIdle ==
    /\ d_pc = "idle" /\ d_in = <<>> /\ d_out = <<>>

BatchIdle ==
    /\ b_pc = "idle" /\ b_subdomains = <<>> /\ b_futures = <<>> /\ results = <<>>

ServerIdle ==
    /\ s_pc = "idle" /\ request = <<>> /\ s_env = <<>> /\ s_task = <<>> /\ scans = <<>>
    /\ s_hist = <<>>

BroadcastIdle ==
    /\ w_pc = "idle" /\ active_connections = {} /\ scan_subscriptions = <<>> /\ w_env = {}
    /\ w_i = 0 /\ w_hist = <<>>

DedupIdle ==
    /\ u_pc = "idle" /\ u_in = <<>> /\ u_out = <<>>

EnrichIdle ==
    /\ e_pc = "idle" /\ e_args = <<>> /\ e_subs = <<>> /\ e_hist = <<>>

\* Every component after the batch takeover scan is idle
OthersIdle == ServerIdle /\ BroadcastIdle /\ DedupIdle /\ EnrichIdle

(***************************************************************************)
(* passive_enum.py                                                         *)
(***************************************************************************)
\* The domain every model run queries (the caller passes a sanitized domain).
Domain == "example.com"

\* Longest response body (entries) a passive source returns in the model.
MaxEntries == 2

\* Raw hostnames a passive source may report for Domain.
RawHosts ==
    {"api.example.com", "evilexample.com", "API.Example.COM", "Api.Example.Com", "*.example.com"}

JsonSources == {"crtsh", "alienvault", "threatcrowd"}

\* What one source answers: requests.get raises, a non-200 status, a body
\* response.json() rejects, or status 200 with a list of entries. A JSON
\* entry whose field is null is None (its str method call raises).
Entries(name) ==
    LET pool == IF name \in JsonSources THEN RawHosts \cup {None} ELSE RawHosts
    IN  UNION {[1..n -> pool] : n \in 0..MaxEntries}

Responses(name) ==
    {[kind |-> "raise", entries |-> <<>>], [kind |-> "status", entries |-> <<>>]}
        \cup (IF name \in JsonSources THEN {[kind |-> "bad_json", entries |-> <<>>]} ELSE {})
        \cup {[kind |-> "ok", entries |-> e] : e \in Entries(name)}

\* The entries the for loop handles before an entry raises (all, if none does).
RECURSIVE handled(_)
handled(entries) ==
    IF entries = <<>> \/ Head(entries) = None THEN <<>>
    ELSE <<Head(entries)>> \o handled(Tail(entries))

raised_in_loop(entries) == None \in Range(entries)

\* fetch_crtsh: the lines of one name_value
crtsh_entry(domain, name_value) ==
    LET lines == split(name_value, "\n")
        clean(line) == replace(strip(line), "*.", "")
    IN  {lower(clean(lines[i])) : i \in {j \in 1..Len(lines) :
            contains(clean(lines[j]), domain) /\ endswith(clean(lines[j]), domain)}}

\* fetch_alienvault: one passive_dns record
alienvault_entry(domain, hostname) ==
    IF endswith(hostname, domain) THEN {lower(hostname)} ELSE {}

\* fetch_threatcrowd: one element of subdomains
threatcrowd_entry(domain, sub) ==
    IF endswith(sub, domain) THEN {lower(sub)} ELSE {}

HOST_CLASS == ASCII_LOWERCASE \o ASCII_UPPERCASE \o DIGITS \o ".-"

RECURSIVE class_run(_, _)
class_run(s, class) ==
    IF s # "" /\ InStr(Head(s), class) THEN Head(s) \o class_run(Tail(s), class) ELSE ""

\* fetch_wayback: the group of https?://([a-zA-Z0-9.-]*\.domain) on the URL
\* http://<host>/ : the longest run of host characters that ends in .domain
wayback_entry(domain, host) ==
    LET run == class_run(host, HOST_CLASS)
        ends == {k \in 1..Len(run) : endswith(SubSeq(run, 1, k), "." \o domain)}
    IN  IF ends = {} THEN {} ELSE {lower(SubSeq(run, 1, Max(ends)))}

\* fetch_hackertarget: one line "<host>,<ip>"
hackertarget_entry(domain, host) ==
    LET line == host \o ",192.0.2.1"
        subdomain == strip(split(line, ",")[1])
    IN  IF contains(line, ",") /\ endswith(subdomain, domain) THEN {lower(subdomain)} ELSE {}

LABEL_EDGE == ASCII_LOWERCASE \o ASCII_UPPERCASE \o DIGITS
LABEL_INNER == LABEL_EDGE \o "-"

\* [a-zA-Z0-9]([a-zA-Z0-9\-]{0,61}[a-zA-Z0-9])?
is_label(s) ==
    /\ Len(s) >= 1 /\ Len(s) <= 63
    /\ InStr(Char(s, 1), LABEL_EDGE) /\ InStr(Char(s, Len(s)), LABEL_EDGE)
    /\ \A i \in 1..Len(s) : InStr(Char(s, i), LABEL_INNER)

\* (label\.)+ matches s exactly
is_label_chain(s) ==
    /\ endswith(s, ".")
    /\ LET labels == split(SubSeq(s, 1, Len(s) - 1), ".")
       IN  \A i \in 1..Len(labels) : is_label(labels[i])

\* fetch_rapiddns: re.findall of (label\.)+domain in the page text around one
\* host; a match is a tuple whose first group is the last label with its dot
rapiddns_entry(domain, host) ==
    LET matches == {m \in (1..Len(host)) \X (1..Len(host)) :
                        /\ m[1] < m[2]
                        /\ endswith(SubSeq(host, m[1], m[2]), domain)
                        /\ is_label_chain(SubSeq(host, m[1], m[2] - Len(domain)))}
    IN  IF matches = {} THEN {}
        ELSE LET first == Min({m[1] : m \in matches})
                 last == Max({m[2] : m \in {n \in matches : n[1] = first}})
                 labels == split(SubSeq(host, first, last - Len(domain) - 1), ".")
                 subdomain == labels[Len(labels)] \o "." \o domain
             IN  IF endswith(subdomain, domain) THEN {lower(subdomain)} ELSE {}

source_entry(name, domain, e) ==
    CASE name = "crtsh" -> crtsh_entry(domain, e)
      [] name = "alienvault" -> alienvault_entry(domain, e)
      [] name = "threatcrowd" -> threatcrowd_entry(domain, e)
      [] name = "wayback" -> wayback_entry(domain, e)
      [] name = "hackertarget" -> hackertarget_entry(domain, e)
      [] name = "rapiddns" -> rapiddns_entry(domain, e)

\* all_sources.keys(), in dict order
all_sources == <<"crtsh", "alienvault", "threatcrowd", "wayback", "hackertarget", "rapiddns">>

\* What each fetch_<source>(Domain) adds to subs for one entry (evaluated once).
entry_subs ==
    [name \in Range(all_sources) |-> [e \in RawHosts |-> source_entry(name, Domain, e)]]

\* One fetch_<source>(Domain): the try block ends at the first raise, and the
\* function returns subs as it then stands.
fetch(name, resp) ==
    IF resp.kind = "ok"
    THEN UNION {entry_subs[name][e] : e \in Range(handled(resp.entries))}
    ELSE {}

\* The source failed: it raised, timed out, or answered a non-200 or
\* malformed response.
fetch_failed(resp) == resp.kind # "ok" \/ raised_in_loop(resp.entries)

\* The `sources` argument: None (all sources) or a caller's list.
SourceLists ==
    {all_sources, <<"alienvault", "crtsh">>, <<"wayback", "shodan", "rapiddns">>,
     <<"hackertarget">>, <<"threatcrowd", "crtsh", "wayback">>}

PassiveInit ==
    /\ p_pc = "loop"
    /\ p_sources \in SourceLists
    /\ p_i = 1
    /\ all_subs = {}
    /\ p_result = <<>>
    /\ p_reported = {}
    /\ p_okUnion = {}

\* One iteration of `for source_name in sources` for a known source.
passive_source ==
    /\ p_pc = "loop"
    /\ p_i <= Len(p_sources)
    /\ p_sources[p_i] \in Range(all_sources)
    /\ \E resp \in Responses(p_sources[p_i]) :
        LET name == p_sources[p_i]
            subs == fetch(name, resp)
        IN  /\ all_subs' = all_subs \cup subs
            /\ p_reported' = p_reported \cup (Range(resp.entries) \ {None})
            /\ p_okUnion' = IF fetch_failed(resp) THEN p_okUnion ELSE p_okUnion \cup subs
    /\ p_i' = p_i + 1
    /\ UNCHANGED <<p_pc, p_sources, p_result>>
    /\ UNCHANGED <<a_vars, t_vars, m_vars, g_vars, d_vars, b_vars, s_vars, w_vars, u_vars, e_vars>>

\* One iteration for a name that is not a key of all_sources: skipped.
passive_unknown ==
    /\ p_pc = "loop"
    /\ p_i <= Len(p_sources)
    /\ p_sources[p_i] \notin Range(all_sources)
    /\ p_i' = p_i + 1
    /\ UNCHANGED <<p_pc, p_sources, all_subs, p_result, p_reported, p_okUnion>>
    /\ UNCHANGED <<a_vars, t_vars, m_vars, g_vars, d_vars, b_vars, s_vars, w_vars, u_vars, e_vars>>

\* The user cancels (Ctrl-C) while a source is queried: KeyboardInterrupt is
\* not an Exception, so neither the fetcher's handler nor the loop's catches
\* it; passive_enum raises and returns nothing.
passive_interrupt ==
    /\ p_pc = "loop"
    /\ p_i <= Len(p_sources)
    /\ p_pc' = "interrupted"
    /\ UNCHANGED <<p_sources, p_i, all_subs, p_result, p_reported, p_okUnion>>
    /\ UNCHANGED <<a_vars, t_vars, m_vars, g_vars, d_vars, b_vars, s_vars, w_vars, u_vars, e_vars>>

\* result = sorted(all_subs); return result
passive_return ==
    /\ p_pc = "loop"
    /\ p_i > Len(p_sources)
    /\ p_result' = sorted(all_subs)
    /\ p_pc' = "done"
    /\ UNCHANGED <<p_sources, p_i, all_subs, p_reported, p_okUnion>>
    /\ UNCHANGED <<a_vars, t_vars, m_vars, g_vars, d_vars, b_vars, s_vars, w_vars, u_vars, e_vars>>

PassiveNext == passive_source \/ passive_unknown \/ passive_interrupt \/ passive_return

\* passive_enum alone
InitPassive == PassiveInit /\ ActiveIdle /\ TakeoverIdle /\ MainIdle /\ MergeIdle /\ ChangesIdle /\ BatchIdle /\ OthersIdle

SpecPassive == InitPassive /\ [][PassiveNext]_vars

(***************************************************************************)
(* active_enum.py                                                          *)
(***************************************************************************)
\* Longest wordlist file, in lines.
MaxWords == 3

\* Lines a wordlist file may hold (each is read with its newline).
WordLines == {"www", "api", "#comment", "", " WWW "}

\* Lower-case names that have an A record.
ResolvableNames == {"www.example.com", "api.example.com"}

\* DNS compares names case-insensitively.
resolves(name, resolvable) == lower(name) \in resolvable

\* resolve_dns_python(subdomain): the name, or None when resolve raises
resolve_dns_python(subdomain, resolvable) ==
    IF resolves(subdomain, resolvable) THEN subdomain ELSE None

\* [x for x in list if keep(x)] for a list of str
RECURSIVE keep_truthy(_)
keep_truthy(list) ==
    IF list = <<>> THEN <<>>
    ELSE IF Head(list) = "" \/ Head(list) = None THEN keep_truthy(Tail(list))
    ELSE <<Head(list)>> \o keep_truthy(Tail(list))

\* words = [line.strip() for line in f if line.strip()]
read_words(lines) == keep_truthy([i \in 1..Len(lines) |-> strip(lines[i] \o "\n")])

\* subdomains = [f"{word}.{domain}" for word in words]
generate_subdomains(ws, domain) == [i \in 1..Len(ws) |-> ws[i] \o "." \o domain]

\* The dnsx process: it reads one host per line on stdin and writes each host
\* that resolves, one per line, on stdout.
dnsx_stdout(stdin, resolvable) ==
    LET hosts == IF stdin = "" THEN <<>> ELSE split(stdin, "\n")
        live == keep_truthy([i \in 1..Len(hosts) |-> resolve_dns_python(hosts[i], resolvable)])
    IN  join("", [i \in 1..Len(live) |-> live[i] \o "\n"])

\* resolve_with_dnsx(subdomains): subprocess.run raised (no such executable,
\* timeout), or the process ran and its stdout is parsed.
resolve_with_dnsx(subs, runs, resolvable) ==
    IF ~runs THEN <<>>
    ELSE LET stdout == dnsx_stdout(join("\n", subs), resolvable)
         IN  IF stdout # "" THEN split(strip(stdout), "\n") ELSE <<>>

\* What the ThreadPoolExecutor branch returns for the same candidates.
resolve_concurrently(subs, resolvable) ==
    keep_truthy([i \in 1..Len(subs) |-> resolve_dns_python(subs[i], resolvable)])

WordlistFiles ==
    {[kind |-> "missing", lines |-> <<>>], [kind |-> "unreadable", lines |-> <<>>]}
        \cup {[kind |-> "ok", lines |-> l] : l \in UNION {[1..n -> WordLines] : n \in 0..MaxWords}}

Pending == "<pending>"

ActiveInit ==
    /\ a_pc = "load"
    /\ a_file \in WordlistFiles
    /\ a_env \in [dnsx_on_path : BOOLEAN, resolvable : SUBSET ResolvableNames]
    /\ a_tool = "unused"
    /\ words = <<>>
    /\ subdomains = <<>>
    /\ a_results = <<>>
    /\ live_subs = <<>>

\* with open(wordlist_path, "r") as f: words = [...]
active_load ==
    /\ a_pc = "load"
    /\ a_file.kind = "ok"
    /\ words' = read_words(a_file.lines)
    /\ a_pc' = "generate"
    /\ UNCHANGED <<a_file, a_env, a_tool, subdomains, a_results, live_subs>>
    /\ UNCHANGED <<p_vars, t_vars, m_vars, g_vars, d_vars, b_vars, s_vars, w_vars, u_vars, e_vars>>

\* except FileNotFoundError: return []
active_not_found ==
    /\ a_pc = "load"
    /\ a_file.kind = "missing"
    /\ live_subs' = <<>>
    /\ a_pc' = "done"
    /\ UNCHANGED <<a_file, a_env, a_tool, words, subdomains, a_results>>
    /\ UNCHANGED <<p_vars, t_vars, m_vars, g_vars, d_vars, b_vars, s_vars, w_vars, u_vars, e_vars>>

\* open or read raises anything else (PermissionError, IsADirectoryError,
\* UnicodeDecodeError): no handler, active_enum raises
active_unreadable ==
    /\ a_pc = "load"
    /\ a_file.kind = "unreadable"
    /\ a_pc' = "raised"
    /\ UNCHANGED <<a_file, a_env, a_tool, words, subdomains, a_results, live_subs>>
    /\ UNCHANGED <<p_vars, t_vars, m_vars, g_vars, d_vars, b_vars, s_vars, w_vars, u_vars, e_vars>>

active_generate ==
    /\ a_pc = "generate"
    /\ subdomains' = generate_subdomains(words, Domain)
    /\ a_pc' = "select"
    /\ UNCHANGED <<a_file, a_env, a_tool, words, a_results, live_subs>>
    /\ UNCHANGED <<p_vars, t_vars, m_vars, g_vars, d_vars, b_vars, s_vars, w_vars, u_vars, e_vars>>

\* if shutil.which("dnsx"): live_subs = resolve_with_dnsx(subdomains); return
active_dnsx ==
    /\ a_pc = "select"
    /\ a_env.dnsx_on_path
    /\ \E runs \in BOOLEAN :
        /\ a_tool' = IF runs THEN "ran" ELSE "failed"
        /\ live_subs' = resolve_with_dnsx(subdomains, runs, a_env.resolvable)
    /\ a_pc' = "done"
    /\ UNCHANGED <<a_file, a_env, words, subdomains, a_results>>
    /\ UNCHANGED <<p_vars, t_vars, m_vars, g_vars, d_vars, b_vars, s_vars, w_vars, u_vars, e_vars>>

\* else: executor.map(resolve_dns_python, subdomains) submits every candidate
active_submit ==
    /\ a_pc = "select"
    /\ ~a_env.dnsx_on_path
    /\ a_results' = [i \in 1..Len(subdomains) |-> Pending]
    /\ a_pc' = "pool"
    /\ UNCHANGED <<a_file, a_env, a_tool, words, subdomains, live_subs>>
    /\ UNCHANGED <<p_vars, t_vars, m_vars, g_vars, d_vars, b_vars, s_vars, w_vars, u_vars, e_vars>>

\* One worker finishes one candidate; workers finish in any order.
active_worker ==
    /\ a_pc = "pool"
    /\ \E i \in 1..Len(a_results) :
        /\ a_results[i] = Pending
        /\ a_results' =
            [a_results EXCEPT ![i] = resolve_dns_python(subdomains[i], a_env.resolvable)]
    /\ UNCHANGED <<a_pc, a_file, a_env, a_tool, words, subdomains, live_subs>>
    /\ UNCHANGED <<p_vars, t_vars, m_vars, g_vars, d_vars, b_vars, s_vars, w_vars, u_vars, e_vars>>

\* The with block ends when every worker has finished;
\* live_subs = [sub for sub in results if sub]; return live_subs
active_collect ==
    /\ a_pc = "pool"
    /\ \A i \in 1..Len(a_results) : a_results[i] # Pending
    /\ live_subs' = keep_truthy(a_results)
    /\ a_pc' = "done"
    /\ UNCHANGED <<a_file, a_env, a_tool, words, subdomains, a_results>>
    /\ UNCHANGED <<p_vars, t_vars, m_vars, g_vars, d_vars, b_vars, s_vars, w_vars, u_vars, e_vars>>

ActiveNext ==
    \/ active_load \/ active_not_found \/ active_unreadable \/ active_generate
    \/ active_dnsx \/ active_submit \/ active_worker \/ active_collect

InitActive == PassiveIdle /\ ActiveInit /\ TakeoverIdle /\ MainIdle /\ MergeIdle /\ ChangesIdle /\ BatchIdle /\ OthersIdle

\* active_enum alone
SpecActive == InitActive /\ [][ActiveNext]_vars

(***************************************************************************)
(* takeover_detect.py                                                      *)
(***************************************************************************)
\* TAKEOVER_FINGERPRINTS, in dict order
TAKEOVER_FINGERPRINTS == <<
    [service |-> "GitHub Pages",
     cname |-> <<"github.io", "github.com">>,
     response |-> <<"There isn't a GitHub Pages site here", "For root URLs">>],
    [service |-> "Heroku",
     cname |-> <<"herokuapp.com", "herokussl.com">>,
     response |-> <<"No such app", "no-such-app">>],
    [service |-> "AWS S3",
     cname |-> <<"s3.amazonaws.com", "s3-website">>,
     response |-> <<"NoSuchBucket", "The specified bucket does not exist">>],
    [service |-> "Azure",
     cname |-> <<"azurewebsites.net", "cloudapp.net", "cloudapp.azure.com">>,
     response |-> <<"404 Web Site not found", "This site has been disabled">>],
    [service |-> "Netlify",
     cname |-> <<"netlify.com", "netlify.app">>,
     response |-> <<"Not Found - Request ID">>],
    [service |-> "Vercel",
     cname |-> <<"vercel.app", "now.sh">>,
     response |-> <<"The deployment could not be found", "The page you were looking for doesn't exist">>],
    [service |-> "Wordpress",
     cname |-> <<"wordpress.com">>,
     response |-> <<"Do you want to register">>],
    [service |-> "Shopify",
     cname |-> <<"myshopify.com">>,
     response |-> <<"Sorry, this shop is currently unavailable">>],
    [service |-> "Tumblr",
     cname |-> <<"tumblr.com">>,
     response |-> <<"There's nothing here", "Whatever you were looking for doesn't currently exist">>],
    [service |-> "Bitbucket",
     cname |-> <<"bitbucket.io">>,
     response |-> <<"Repository not found">>],
    [service |-> "Ghost",
     cname |-> <<"ghost.io">>,
     response |-> <<"The thing you were looking for is no longer here">>],
    [service |-> "Pantheon",
     cname |-> <<"pantheonsite.io">>,
     response |-> <<"404 error unknown site">>],
    [service |-> "Fastly",
     cname |-> <<"fastly.net">>,
     response |-> <<"Fastly error: unknown domain">>],
    [service |-> "Zendesk",
     cname |-> <<"zendesk.com">>,
     response |-> <<"Help Center Closed">>],
    [service |-> "HelpJuice",
     cname |-> <<"helpjuice.com">>,
     response |-> <<"We could not find what you're looking for">>],
    [service |-> "Cargo",
     cname |-> <<"cargocollective.com">>,
     response |-> <<"If you're moving your domain away from Cargo">>],
    [service |-> "StatusPage",
     cname |-> <<"statuspage.io">>,
     response |-> <<"Status page not found">>],
    [service |-> "Surge",
     cname |-> <<"surge.sh">>,
     response |-> <<"project not found">>]
>>

\* Python truthiness of an Optional[str]
truthy(v) == v # None /\ v # ""

\* any(pattern in text for pattern in patterns)
any_in(patterns, text) == \E i \in 1..Len(patterns) : contains(text, patterns[i])

\* check_cname_vulnerable(cname): the first service, in table order, one of
\* whose cname patterns is in cname.lower(); None when there is none
check_cname_vulnerable(cname) ==
    IF ~truthy(cname) THEN None
    ELSE LET hits == {k \in 1..Len(TAKEOVER_FINGERPRINTS) :
                        any_in(TAKEOVER_FINGERPRINTS[k].cname, lower(cname))}
         IN  IF hits = {} THEN None ELSE TAKEOVER_FINGERPRINTS[Min(hits)].service

\* fingerprint.get('response', []) of TAKEOVER_FINGERPRINTS.get(service, {})
response_patterns(service) ==
    LET ks == {k \in 1..Len(TAKEOVER_FINGERPRINTS) : TAKEOVER_FINGERPRINTS[k].service = service}
    IN  IF ks = {} THEN <<>> ELSE TAKEOVER_FINGERPRINTS[Min(ks)].response

\* check_response_vulnerable with the pattern compared as written
check_response_vulnerable_pattern_case(content, service) ==
    /\ truthy(content) /\ truthy(service)
    /\ any_in(response_patterns(service), lower(content))

\* check_response_vulnerable(content, service)
check_response_vulnerable(content, service) ==
    /\ truthy(content) /\ truthy(service)
    /\ LET patterns == response_patterns(service)
       IN  any_in([i \in 1..Len(patterns) |-> lower(patterns[i])], lower(content))

\* The hostname under classification.
Subdomain == "shop.example.com"

\* What DNS may answer for Subdomain: an A record or none, a CNAME or none.
IpAnswers == {None, "192.0.2.10"}

CnameAnswers ==
    {None, "foo.s3-website-us-east-1.amazonaws.com", "Shop.GitHub.IO",
     "docs.github.io.s3.amazonaws.com", "cdn.example.net"}

\* What one requests.get may do: a response, an SSLError, another exception.
Bodies ==
    {"", "Welcome", "<Code>NoSuchBucket</Code>", "error: nosuchbucket",
     "There isn't a GitHub Pages site here."}

StatusCodes == {200, 404}

HttpOutcomes ==
    {[kind |-> "ssl_error", status_code |-> 0, text |-> ""],
     [kind |-> "error", status_code |-> 0, text |-> ""]}
        \cup {[kind |-> "response", status_code |-> c, text |-> b] : c \in StatusCodes, b \in Bodies}

\* confidence: none < low < medium < high
rank(confidence) ==
    CASE confidence = "none" -> 0
      [] confidence = "low" -> 1
      [] confidence = "medium" -> 2
      [] confidence = "high" -> 3

TakeoverInit ==
    /\ t_pc = "resolve"
    /\ t_dns \in [ip : IpAnswers, cname : CnameAnswers]
    /\ result = [subdomain |-> Subdomain, vulnerable |-> FALSE, confidence |-> "none",
                 service |-> None, cname |-> None, ip |-> None, status_code |-> None,
                 evidence |-> <<>>]
    /\ t_hist = <<>>

\* result['ip'] = resolve_ip(subdomain); result['cname'] = get_cname(subdomain)
takeover_resolve ==
    /\ t_pc = "resolve"
    /\ result' = [result EXCEPT !.ip = t_dns.ip, !.cname = t_dns.cname]
    /\ t_pc' = "check"
    /\ UNCHANGED <<t_dns, t_hist>>
    /\ UNCHANGED <<p_vars, a_vars, m_vars, g_vars, d_vars, b_vars, s_vars, w_vars, u_vars, e_vars>>

\* after_cname_check with the no-IP test as an `if` of its own
after_cname_check_separate_if(r) ==
    LET service == IF truthy(r.cname) THEN check_cname_vulnerable(r.cname) ELSE None
        matched == IF truthy(service)
                   THEN [r EXCEPT !.service = service,
                                  !.evidence = Append(@, "CNAME points to " \o service \o ": " \o r.cname),
                                  !.confidence = "low"]
                   ELSE r
    IN  IF truthy(r.cname) /\ ~truthy(r.ip)
        THEN [matched EXCEPT !.evidence = Append(@, "CNAME exists but doesn't resolve to IP"),
                             !.confidence = "medium"]
        ELSE matched

\* result after `if result['cname']: ... elif result['cname'] and not
\* result['ip']: ...`, up to the fetch loop
after_cname_check(r) ==
    IF truthy(r.cname)
    THEN LET service == check_cname_vulnerable(r.cname)
         IN  IF truthy(service)
             THEN [r EXCEPT !.service = service,
                            !.evidence = Append(@, "CNAME points to " \o service \o ": " \o r.cname),
                            !.confidence = "low"]
             ELSE r
    ELSE IF truthy(r.cname) /\ ~truthy(r.ip)
         THEN [r EXCEPT !.evidence = Append(@, "CNAME exists but doesn't resolve to IP"),
                        !.confidence = "medium"]
         ELSE r

takeover_check ==
    /\ t_pc = "check"
    /\ result' = after_cname_check(result)
    /\ t_pc' = IF truthy(result'.service) THEN "https" ELSE "done"
    /\ UNCHANGED <<t_dns, t_hist>>
    /\ UNCHANGED <<p_vars, a_vars, m_vars, g_vars, d_vars, b_vars, s_vars, w_vars, u_vars, e_vars>>

\* after_response with a reset of confidence on an unrelated page
after_response_reset(r, response) ==
    IF check_response_vulnerable(response.text, r.service)
    THEN [r EXCEPT !.status_code = response.status_code,
                   !.vulnerable = TRUE,
                   !.confidence = "high",
                   !.evidence = Append(@, "Vulnerable response pattern detected")]
    ELSE IF response.status_code = 404
    THEN [r EXCEPT !.status_code = response.status_code,
                   !.confidence = "medium",
                   !.evidence = Append(@, "404 response with service CNAME")]
    ELSE [r EXCEPT !.status_code = response.status_code, !.confidence = "low"]

\* after_response without the test of status 404
after_response_no_404(r, response) ==
    IF check_response_vulnerable(response.text, r.service)
    THEN [r EXCEPT !.status_code = response.status_code,
                   !.vulnerable = TRUE,
                   !.confidence = "high",
                   !.evidence = Append(@, "Vulnerable response pattern detected")]
    ELSE [r EXCEPT !.status_code = response.status_code]

\* The try body of the protocol loop once requests.get has returned
after_response(r, response) ==
    IF check_response_vulnerable(response.text, r.service)
    THEN [r EXCEPT !.status_code = response.status_code,
                   !.vulnerable = TRUE,
                   !.confidence = "high",
                   !.evidence = Append(@, "Vulnerable response pattern detected")]
    ELSE IF response.status_code = 404
    THEN [r EXCEPT !.status_code = response.status_code,
                   !.confidence = "medium",
                   !.evidence = Append(@, "404 response with service CNAME")]
    ELSE [r EXCEPT !.status_code = response.status_code]

\* after_ssl_error that takes the TLS failure for a confirmation
after_ssl_error_high(r) ==
    [r EXCEPT !.evidence = Append(@, "SSL error (common with takeover)"),
              !.confidence = "high"]

\* after_ssl_error without the assignment to confidence
after_ssl_error_evidence_only(r) ==
    [r EXCEPT !.evidence = Append(@, "SSL error (common with takeover)")]

\* except requests.exceptions.SSLError
after_ssl_error(r) ==
    [r EXCEPT !.evidence = Append(@, "SSL error (common with takeover)"),
              !.confidence = "medium"]

\* takeover_fetch without the break after a response
takeover_fetch_no_break(protocol) ==
    /\ t_pc = protocol
    /\ \E outcome \in HttpOutcomes :
        /\ result' = CASE outcome.kind = "response" -> after_response(result, outcome)
                       [] outcome.kind = "ssl_error" -> after_ssl_error(result)
                       [] outcome.kind = "error" -> result
        /\ t_hist' = Append(t_hist, [protocol |-> protocol, outcome |-> outcome])
        /\ t_pc' = IF protocol = "https" THEN "http" ELSE "done"
    /\ UNCHANGED t_dns
    /\ UNCHANGED <<p_vars, a_vars, m_vars, g_vars, d_vars, b_vars, s_vars, w_vars, u_vars, e_vars>>

\* One iteration of `for protocol in ['https', 'http']`: a response breaks
\* out of the loop, an exception continues with the next protocol.
takeover_fetch(protocol) ==
    /\ t_pc = protocol
    /\ \E outcome \in HttpOutcomes :
        /\ result' = CASE outcome.kind = "response" -> after_response(result, outcome)
                       [] outcome.kind = "ssl_error" -> after_ssl_error(result)
                       [] outcome.kind = "error" -> result
        /\ t_hist' = Append(t_hist, [protocol |-> protocol, outcome |-> outcome])
        /\ t_pc' = IF outcome.kind # "response" /\ protocol = "https" THEN "http" ELSE "done"
    /\ UNCHANGED t_dns
    /\ UNCHANGED <<p_vars, a_vars, m_vars, g_vars, d_vars, b_vars, s_vars, w_vars, u_vars, e_vars>>

\* protocol = 'https'
takeover_https ==
    /\ t_pc = "https"
    /\ takeover_fetch("https")

\* protocol = 'http', reached only when the https attempt raised
takeover_http ==
    /\ t_pc = "http"
    /\ takeover_fetch("http")

TakeoverNext == takeover_resolve \/ takeover_check \/ takeover_https \/ takeover_http

InitTakeover == PassiveIdle /\ ActiveIdle /\ TakeoverInit /\ MainIdle /\ MergeIdle /\ ChangesIdle /\ BatchIdle /\ OthersIdle

\* check_subdomain_takeover alone
SpecTakeover == InitTakeover /\ [][TakeoverNext]_vars

(***************************************************************************)
(* takeover_detect.py: scan_takeover                                       *)
(***************************************************************************)
\* Longest list of hostnames scan_takeover is given.
MaxHosts == 2

BatchHosts == {"shop.example.com", "old.example.com"}

\* What the network does for one hostname: the A and CNAME answers and what
\* the https and the http request do (a failed lookup is the answer None).
BatchEnvs ==
    [ip : IpAnswers,
     cname : {None, "foo.s3-website-us-east-1.amazonaws.com"},
     https : {[kind |-> "error", status_code |-> 0, text |-> ""],
              [kind |-> "ssl_error", status_code |-> 0, text |-> ""],
              [kind |-> "response", status_code |-> 200, text |-> "<Code>NoSuchBucket</Code>"]},
     http : {[kind |-> "error", status_code |-> 0, text |-> ""],
             [kind |-> "response", status_code |-> 404, text |-> "Welcome"]}]

\* result = {...} at the head of check_subdomain_takeover
new_result(subdomain) ==
    [subdomain |-> subdomain, vulnerable |-> FALSE, confidence |-> "none",
     service |-> None, cname |-> None, ip |-> None, status_code |-> None,
     evidence |-> <<>>]

\* One iteration of the protocol loop
after_fetch(r, outcome) ==
    CASE outcome.kind = "response" -> after_response(r, outcome)
      [] outcome.kind = "ssl_error" -> after_ssl_error(r)
      [] outcome.kind = "error" -> r

\* check_subdomain_takeover(subdomain) as one call
check_subdomain_takeover(subdomain, env) ==
    LET resolved == [new_result(subdomain) EXCEPT !.ip = env.ip, !.cname = env.cname]
        checked == after_cname_check(resolved)
    IN  IF ~truthy(checked.service) THEN checked
        ELSE IF env.https.kind = "response" THEN after_fetch(checked, env.https)
        ELSE after_fetch(after_fetch(checked, env.https), env.http)

\* The assessment of every hostname under every behaviour of the network
\* (evaluated once).
assessments ==
    {<<sub, env, check_subdomain_takeover(sub, env)>> : sub \in BatchHosts, env \in BatchEnvs}

assessment(sub, env) == (CHOOSE t \in assessments : t[1] = sub /\ t[2] = env)[3]

\* run_future where a failed A lookup raises out of the call
run_future_dns_raises(sub, env) ==
    [raised |-> env.ip = None, value |-> assessment(sub, env)]

\* What the future of executor.submit(check_subdomain_takeover, sub) holds
\* once the call has ended: every exception of the call is handled inside it
run_future(sub, env) ==
    [raised |-> FALSE, value |-> assessment(sub, env)]

\* A future: its call is pending, has finished, or has finished and been
\* yielded by as_completed
future(state, outcome) == [state |-> state, outcome |-> outcome]

BatchInit ==
    /\ b_pc = "submit"
    /\ b_subdomains \in UNION {[1..n -> BatchHosts] : n \in 0..MaxHosts}
    /\ b_futures = <<>>
    /\ results = <<>>

\* future_to_sub = {executor.submit(check_subdomain_takeover, sub): sub ...}
batch_submit ==
    /\ b_pc = "submit"
    /\ b_futures' = [i \in 1..Len(b_subdomains) |-> future("pending", <<>>)]
    /\ b_pc' = "pool"
    /\ UNCHANGED <<b_subdomains, results>>
    /\ UNCHANGED <<p_vars, a_vars, t_vars, m_vars, g_vars, d_vars, s_vars, w_vars, u_vars, e_vars>>

\* One call ends in a worker; calls end in any order.
batch_worker ==
    /\ b_pc = "pool"
    /\ \E i \in 1..Len(b_futures) : \E env \in BatchEnvs :
        /\ b_futures[i].state = "pending"
        /\ b_futures' = [b_futures EXCEPT
                            ![i] = future("finished", run_future(b_subdomains[i], env))]
    /\ UNCHANGED <<b_pc, b_subdomains, results>>
    /\ UNCHANGED <<p_vars, a_vars, t_vars, m_vars, g_vars, d_vars, s_vars, w_vars, u_vars, e_vars>>

\* for future in as_completed(future_to_sub): results.append(future.result()),
\* or the except branch, which reports the error and appends nothing
batch_collect ==
    /\ b_pc = "pool"
    /\ \E i \in 1..Len(b_futures) :
        /\ b_futures[i].state = "finished"
        /\ results' = IF b_futures[i].outcome.raised THEN results
                      ELSE Append(results, b_futures[i].outcome.value)
        /\ b_futures' = [b_futures EXCEPT ![i] = future("collected", <<>>)]
    /\ UNCHANGED <<b_pc, b_subdomains>>
    /\ UNCHANGED <<p_vars, a_vars, t_vars, m_vars, g_vars, d_vars, s_vars, w_vars, u_vars, e_vars>>

\* The loop and the with block end; return results
batch_return ==
    /\ b_pc = "pool"
    /\ \A i \in 1..Len(b_futures) : b_futures[i].state = "collected"
    /\ b_pc' = "done"
    /\ UNCHANGED <<b_subdomains, b_futures, results>>
    /\ UNCHANGED <<p_vars, a_vars, t_vars, m_vars, g_vars, d_vars, s_vars, w_vars, u_vars, e_vars>>

BatchNext == batch_submit \/ batch_worker \/ batch_collect \/ batch_return

InitBatch ==
    PassiveIdle /\ ActiveIdle /\ TakeoverIdle /\ MainIdle /\ MergeIdle /\ ChangesIdle /\ BatchInit /\ OthersIdle

\* scan_takeover alone
SpecBatch == InitBatch /\ [][BatchNext]_vars

(***************************************************************************)
(* utils.py, change_detect.py and main.py                                  *)
(***************************************************************************)
\* Scans run one after another over the same history directory.
MaxScans == 3

\* deduplicate_subdomains: sorted(set(s.lower().strip() for s in subdomains if s))
deduplicate_keep_list(subs) ==
    keep_truthy([i \in 1..Len(subs) |-> strip(lower(subs[i]))])

\* sorted(set(s.lower().strip() for s in subdomains if s))
deduplicate_subdomains(subs) ==
    sorted({strip(lower(subs[i])) : i \in {j \in 1..Len(subs) : subs[j] # ""}})

\* calculate_diff with the two differences taken the other way round
calculate_diff_swapped(old_list, new_list) ==
    [added |-> sorted(Range(old_list) \ Range(new_list)),
     removed |-> sorted(Range(new_list) \ Range(old_list)),
     unchanged |-> sorted(Range(old_list) \cap Range(new_list))]

\* calculate_diff(old_list, new_list)
calculate_diff(old_list, new_list) ==
    [added |-> sorted(Range(new_list) \ Range(old_list)),
     removed |-> sorted(Range(old_list) \ Range(new_list)),
     unchanged |-> sorted(Range(old_list) \cap Range(new_list))]

\* format_timestamp(): strftime("%Y%m%d_%H%M%S") of a clock that has run
\* t < 10 seconds since 2026-01-01 00:00:00
format_timestamp(t) == "20260101_00000" \o Char(DIGITS, t + 1)

\* A directory: file name -> lines
write_file(dir, name, lines) ==
    [n \in DOMAIN dir \cup {name} |-> IF n = name THEN lines ELSE dir[n]]

\* save_to_file(filepath, data, header): the header line, then the items
saved_lines(data, header) == <<"# " \o header>> \o data

\* save_results(domain, subdomains): HISTORY_DIR / f"{domain}_{timestamp}.txt"
\* (the header text carries the time and the count; readers skip it)
save_results(dir, domain, subs, t) ==
    write_file(dir, domain \o "_" \o format_timestamp(t) \o ".txt",
               saved_lines(subs, "Domain: " \o domain))

\* HISTORY_DIR.glob(f"{domain}_*.txt")
glob_scans(dir, domain) ==
    {n \in DOMAIN dir :
        /\ Len(n) >= Len(domain) + 5
        /\ startswith(n, domain \o "_")
        /\ endswith(n, ".txt")}

\* [line.strip() for line in f if line.strip() and not line.startswith('#')]
RECURSIVE read_subdomains(_)
read_subdomains(lines) ==
    IF lines = <<>> THEN <<>>
    ELSE IF strip(Head(lines)) # "" /\ ~startswith(Head(lines), "#")
    THEN <<strip(Head(lines))>> \o read_subdomains(Tail(lines))
    ELSE read_subdomains(Tail(lines))

\* The content of a file that open() or the read refuses (permissions, a
\* directory of that name, bytes that are not UTF-8)
Unreadable == <<"<unreadable>">>

\* get_latest_scan(domain): sorted(glob, reverse=True)[0] and its subdomains;
\* found is FALSE for the return value None (no file, or the except branch)
get_latest_scan(dir, domain) ==
    LET scan_files == glob_scans(dir, domain)
    IN  IF scan_files = {} THEN [found |-> FALSE, file |-> None, subdomains |-> <<>>]
        ELSE LET latest_file == CHOOSE n \in scan_files :
                                    \A o \in scan_files \ {n} : str_less(o, n)
             IN  IF dir[latest_file] = Unreadable
                 THEN [found |-> FALSE, file |-> None, subdomains |-> <<>>]
                 ELSE [found |-> TRUE, file |-> latest_file,
                       subdomains |-> read_subdomains(dir[latest_file])]

\* detect_changes(domain, current_subdomains), without the timestamp field
detect_changes(dir, domain, current_subdomains) ==
    LET previous_scan == get_latest_scan(dir, domain)
    IN  IF ~previous_scan.found
        THEN [has_previous |-> FALSE, previous_file |-> None, previous_count |-> 0,
              current_count |-> Len(current_subdomains),
              added |-> <<>>, removed |-> <<>>, unchanged |-> <<>>]
        ELSE LET diff == calculate_diff(previous_scan.subdomains, current_subdomains)
             IN  [has_previous |-> TRUE, previous_file |-> previous_scan.file,
                  previous_count |-> Len(previous_scan.subdomains),
                  current_count |-> Len(current_subdomains),
                  added |-> diff.added, removed |-> diff.removed,
                  unchanged |-> diff.unchanged]

prefixed(prefix, list) == [i \in 1..Len(list) |-> prefix \o list[i]]

\* The lines save_change_report writes (the # lines carry the time and the
\* counts; readers skip them)
change_report_lines(domain, change_data) ==
    <<"# Change Detection Report", "# Domain: " \o domain, "# Timestamp", "# Previous scan",
      "# Current scan", "">>
        \o (IF change_data.added # <<>>
            THEN <<"", "## New Subdomains">> \o prefixed("+ ", change_data.added) ELSE <<>>)
        \o (IF change_data.removed # <<>>
            THEN <<"", "## Removed Subdomains">> \o prefixed("- ", change_data.removed) ELSE <<>>)
        \o (IF change_data.unchanged # <<>>
            THEN <<"", "## Unchanged Subdomains">> \o prefixed("= ", change_data.unchanged)
            ELSE <<>>)

\* save_change_report(domain, change_data):
\* HISTORY_DIR / f"{domain}_changes_{timestamp}.txt"
save_change_report(dir, domain, change_data, t) ==
    write_file(dir, domain \o "_changes_" \o format_timestamp(t) \o ".txt",
               change_report_lines(domain, change_data))

\* passive_enum(Domain, sources) for the answers resps[i] of sources[i]
passive_enum(sources, resps) ==
    sorted(UNION {fetch(sources[i], resps[i]) :
                    i \in {j \in 1..Len(sources) : sources[j] \in Range(all_sources)}})

\* def active_enum(domain, wordlist_path)
active_enum_parameters == <<"domain", "wordlist_path">>

\* A call with n positional arguments and the given keywords raises TypeError
call_raises(parameters, n, keywords) ==
    \/ n > Len(parameters)
    \/ \E k \in keywords : k \notin Range(parameters)
    \/ \E k \in keywords : \E i \in 1..n : parameters[i] = k
    \/ \E i \in (n + 1)..Len(parameters) : parameters[i] \notin keywords

\* for sub in passive_results: scan_data['sources'][sub] = 'passive'
mark_passive(sources, passive_results) ==
    [h \in DOMAIN sources \cup Range(passive_results) |->
        IF h \in Range(passive_results) THEN "passive" ELSE sources[h]]

\* for sub in active_results:
\*     if sub not in scan_data['sources']: scan_data['sources'][sub] = 'active'
mark_active(sources, active_results) ==
    [h \in DOMAIN sources \cup Range(active_results) |->
        IF h \in DOMAIN sources THEN sources[h] ELSE "active"]

\* The command line: the mode flag, -w (or none), whether
\* wordlists/custom.txt exists, --sources, --changes, --no-save.
MainArgs ==
    {a \in [mode : {"passive", "active", "both"},
            wordlist : {None, "wordlists/big.txt"},
            default_wordlist_exists : BOOLEAN,
            sources : {<<"alienvault">>},
            changes : BOOLEAN,
            no_save : BOOLEAN] :
        a.default_wordlist_exists => (a.mode # "passive" /\ a.wordlist = None)}

NoScan ==
    [all_subdomains |-> <<>>, passive_results |-> <<>>, sources |-> <<>>, wordlist |-> None,
     detected |-> FALSE, previous |-> <<>>,
     change_data |-> detect_changes(<<>>, Domain, <<>>)]

MainInit ==
    /\ m_pc = "parse"
    /\ m_args = <<>>
    /\ m_scan = NoScan
    /\ history = <<>>
    /\ clock = 0
    /\ m_hist = [scans |-> 0, saved |-> FALSE, last_saved |-> <<>>, all_enabled |-> TRUE]

\* One run of main() starts, a second or more after the last one ended:
\* args = parser.parse_args() and the setup before the first phase
main_parse ==
    /\ m_pc \in {"parse", "exit", "fatal"}
    /\ m_hist.scans < MaxScans
    /\ m_args' \in MainArgs
    /\ m_scan' = [NoScan EXCEPT !.wordlist = m_args'.wordlist]
    /\ m_hist' = [m_hist EXCEPT !.scans = @ + 1,
                                !.all_enabled = @ /\ m_pc = "parse"]
    /\ clock' = clock + 1
    /\ m_pc' = "passive"
    /\ UNCHANGED history
    /\ UNCHANGED <<p_vars, a_vars, t_vars, g_vars, d_vars, b_vars, s_vars, w_vars, u_vars, e_vars>>

\* if mode in ["passive", "both"]: passive_results = passive_enum(domain, sources)
main_passive ==
    /\ m_pc = "passive"
    /\ IF m_args.mode \in {"passive", "both"}
       THEN \E resp \in Responses(m_args.sources[1]) :
                LET passive_results == passive_enum(m_args.sources, <<resp>>)
                IN  m_scan' = [m_scan EXCEPT !.passive_results = passive_results,
                                             !.all_subdomains = @ \o passive_results,
                                             !.sources = mark_passive(@, passive_results)]
       ELSE UNCHANGED m_scan
    /\ m_pc' = "wordlist"
    /\ UNCHANGED <<m_args, history, clock, m_hist>>
    /\ UNCHANGED <<p_vars, a_vars, t_vars, g_vars, d_vars, b_vars, s_vars, w_vars, u_vars, e_vars>>

\* if mode in ["active", "both"]: the wordlist is -w, else the default when it
\* exists; without either, an active-only scan exits
main_wordlist ==
    /\ m_pc = "wordlist"
    /\ IF m_args.mode \in {"active", "both"}
       THEN IF ~truthy(m_scan.wordlist)
            THEN IF m_args.default_wordlist_exists
                 THEN /\ m_scan' = [m_scan EXCEPT !.wordlist = "wordlists/custom.txt"]
                      /\ m_pc' = "active"
                 ELSE /\ UNCHANGED m_scan
                      /\ m_pc' = IF m_args.mode = "active" THEN "exit" ELSE "dedup"
            ELSE /\ UNCHANGED m_scan
                 /\ m_pc' = "active"
       ELSE /\ UNCHANGED m_scan
            /\ m_pc' = "dedup"
    /\ UNCHANGED <<m_args, history, clock, m_hist>>
    /\ UNCHANGED <<p_vars, a_vars, t_vars, g_vars, d_vars, b_vars, s_vars, w_vars, u_vars, e_vars>>

\* if args.wordlist:
\*     active_results = active_enum(domain, args.wordlist, threads=args.threads)
\* The TypeError of the call leaves main; the handler under __main__ prints
\* "Fatal error" and exits.
main_active ==
    /\ m_pc = "active"
    /\ m_pc' = IF call_raises(active_enum_parameters, 2, {"threads"}) THEN "fatal" ELSE "dedup"
    /\ UNCHANGED <<m_args, m_scan, history, clock, m_hist>>
    /\ UNCHANGED <<p_vars, a_vars, t_vars, g_vars, d_vars, b_vars, s_vars, w_vars, u_vars, e_vars>>

\* all_subdomains = deduplicate_subdomains(all_subdomains)
main_dedup ==
    /\ m_pc = "dedup"
    /\ m_scan' = [m_scan EXCEPT !.all_subdomains = deduplicate_subdomains(@)]
    /\ m_pc' = "changes"
    /\ UNCHANGED <<m_args, history, clock, m_hist>>
    /\ UNCHANGED <<p_vars, a_vars, t_vars, g_vars, d_vars, b_vars, s_vars, w_vars, u_vars, e_vars>>

\* if args.changes: change_data = detect_changes(domain, all_subdomains)
\*                  if change_data['has_previous']: save_change_report(...)
main_changes ==
    /\ m_pc = "changes"
    /\ IF m_args.changes
       THEN LET latest == get_latest_scan(history, Domain)
                change_data == detect_changes(history, Domain, m_scan.all_subdomains)
            IN  /\ m_scan' = [m_scan EXCEPT
                        !.detected = TRUE,
                        !.previous = latest.subdomains,
                        !.change_data = change_data]
                /\ history' = IF change_data.has_previous
                              THEN save_change_report(history, Domain, change_data, clock)
                              ELSE history
       ELSE UNCHANGED <<m_scan, history>>
    /\ m_pc' = "save"
    /\ UNCHANGED <<m_args, clock, m_hist>>
    /\ UNCHANGED <<p_vars, a_vars, t_vars, g_vars, d_vars, b_vars, s_vars, w_vars, u_vars, e_vars>>

\* if not args.no_save: history_file = save_results(domain, all_subdomains);
\* main() then returns
main_save ==
    /\ m_pc = "save"
    /\ IF ~m_args.no_save
       THEN /\ history' = save_results(history, Domain, m_scan.all_subdomains, clock)
            /\ m_hist' = [m_hist EXCEPT !.saved = TRUE,
                                        !.last_saved = m_scan.all_subdomains,
                                        !.all_enabled = @ /\ m_args.changes]
       ELSE /\ m_hist' = [m_hist EXCEPT !.all_enabled = FALSE]
            /\ UNCHANGED history
    /\ m_pc' = "parse"
    /\ m_args' = <<>>
    /\ m_scan' = NoScan
    /\ UNCHANGED clock
    /\ UNCHANGED <<p_vars, a_vars, t_vars, g_vars, d_vars, b_vars, s_vars, w_vars, u_vars, e_vars>>

MainNext ==
    \/ main_parse \/ main_passive \/ main_wordlist \/ main_active \/ main_dedup
    \/ main_changes \/ main_save

InitMain == PassiveIdle /\ ActiveIdle /\ TakeoverIdle /\ MainInit /\ MergeIdle /\ ChangesIdle /\ BatchIdle /\ OthersIdle

\* main() run again and again over one history directory
SpecMain == InitMain /\ [][MainNext]_vars

(***************************************************************************)
(* change_detect.py: detect_changes over a history directory               *)
(***************************************************************************)
\* Longest hostname list given to calculate_diff and detect_changes.
MaxList == 2

HostLists ==
    UNION {[1..n -> {"api.example.com", "www.example.com", "old.example.com"}] :
            n \in 0..MaxList}

\* What HISTORY_DIR holds before the call: nothing; only another domain's
\* scan; one scan of the domain, readable or not; an older and a newer scan.
history_dir(kind, previous) ==
    CASE kind = "empty" -> <<>>
      [] kind = "other" ->
            save_results(<<>>, "example.org", <<"www.example.org">>, 1)
      [] kind = "unreadable" ->
            write_file(<<>>, Domain \o "_" \o format_timestamp(1) \o ".txt", Unreadable)
      [] kind = "saved" -> save_results(<<>>, Domain, previous, 1)
      [] kind = "older" ->
            save_results(save_results(<<>>, Domain, <<"gone.example.com">>, 1),
                         Domain, previous, 2)

ChangesInit ==
    /\ d_pc = "diff"
    /\ \E kind \in {"empty", "other", "unreadable", "saved", "older"} :
       \E previous \in HostLists : \E current \in HostLists :
            /\ kind \in {"empty", "other", "unreadable"} => previous = <<>>
            /\ d_in = [kind |-> kind, previous |-> previous,
                       current_subdomains |-> current,
                       dir |-> history_dir(kind, previous)]
    /\ d_out = [diff |-> <<>>, change_data |-> <<>>]

\* calculate_diff(previous, current) on the two lists
changes_diff ==
    /\ d_pc = "diff"
    /\ d_out' = [d_out EXCEPT !.diff = calculate_diff(d_in.previous, d_in.current_subdomains)]
    /\ d_pc' = "detect"
    /\ UNCHANGED d_in
    /\ UNCHANGED <<p_vars, a_vars, t_vars, m_vars, g_vars, b_vars, s_vars, w_vars, u_vars, e_vars>>

\* detect_changes(domain, current_subdomains) over the directory
changes_detect ==
    /\ d_pc = "detect"
    /\ d_out' = [d_out EXCEPT
                    !.change_data = detect_changes(d_in.dir, Domain, d_in.current_subdomains)]
    /\ d_pc' = "done"
    /\ UNCHANGED d_in
    /\ UNCHANGED <<p_vars, a_vars, t_vars, m_vars, g_vars, b_vars, s_vars, w_vars, u_vars, e_vars>>

ChangesNext == changes_diff \/ changes_detect

InitChanges ==
    PassiveIdle /\ ActiveIdle /\ TakeoverIdle /\ MainIdle /\ MergeIdle /\ ChangesInit /\ BatchIdle /\ OthersIdle

\* calculate_diff and detect_changes for every pair of lists
SpecChanges == InitChanges /\ [][ChangesNext]_vars

(***************************************************************************)
(* main.py: the merge of what the two enumerations returned                *)
(***************************************************************************)
\* Longest list active_enum returns in the merge.
MaxResults == 2

\* What active_enum(domain, wordlist_path) may return: candidates as the
\* wordlist spelled them, in wordlist order, repeated when a word is.
ActiveResults ==
    UNION {[1..n -> {"www.example.com", "api.example.com", "API.example.com"}] :
            n \in 0..MaxResults}

MergeInit ==
    /\ g_pc = "passive"
    /\ \E resp \in Responses("alienvault") : \E active_results \in ActiveResults :
        g_in = [reported |-> Range(resp.entries) \ {None},
                passive_results |-> passive_enum(<<"alienvault">>, <<resp>>),
                active_results |-> active_results]
    /\ all_subdomains = <<>>
    /\ scan_data = [subdomains |-> <<>>, sources |-> <<>>,
                    passive_count |-> 0, active_count |-> 0]

\* all_subdomains.extend(passive_results); the count; the sources are marked
merge_passive ==
    /\ g_pc = "passive"
    /\ all_subdomains' = all_subdomains \o g_in.passive_results
    /\ scan_data' = [scan_data EXCEPT !.passive_count = Len(g_in.passive_results),
                                      !.sources = mark_passive(@, g_in.passive_results)]
    /\ g_pc' = "active"
    /\ UNCHANGED g_in
    /\ UNCHANGED <<p_vars, a_vars, t_vars, m_vars, d_vars, b_vars, s_vars, w_vars, u_vars, e_vars>>

\* all_subdomains.extend(active_results); the count; the sources are marked
merge_active ==
    /\ g_pc = "active"
    /\ all_subdomains' = all_subdomains \o g_in.active_results
    /\ scan_data' = [scan_data EXCEPT !.active_count = Len(g_in.active_results),
                                      !.sources = mark_active(@, g_in.active_results)]
    /\ g_pc' = "dedup"
    /\ UNCHANGED g_in
    /\ UNCHANGED <<p_vars, a_vars, t_vars, m_vars, d_vars, b_vars, s_vars, w_vars, u_vars, e_vars>>

\* all_subdomains = deduplicate_subdomains(all_subdomains)
\* scan_data['subdomains'] = all_subdomains
merge_dedup ==
    /\ g_pc = "dedup"
    /\ all_subdomains' = deduplicate_subdomains(all_subdomains)
    /\ scan_data' = [scan_data EXCEPT !.subdomains = all_subdomains']
    /\ g_pc' = "done"
    /\ UNCHANGED g_in
    /\ UNCHANGED <<p_vars, a_vars, t_vars, m_vars, d_vars, b_vars, s_vars, w_vars, u_vars, e_vars>>

MergeNext == merge_passive \/ merge_active \/ merge_dedup

InitMerge ==
    PassiveIdle /\ ActiveIdle /\ TakeoverIdle /\ MainIdle /\ MergeInit /\ ChangesIdle /\ BatchIdle /\ OthersIdle

\* The merge of main() for every pair of results of the two enumerations
SpecMerge == InitMerge /\ [][MergeNext]_vars

(***************************************************************************)
(* backend/server.py: create_scan and run_scan_task                        *)
(***************************************************************************)
\* class ScanRequest: mode matches ^(passive|active|both|modern)$; the other
\* fields at their defaults unless the request sets them.  use_subfinder,
\* use_assetfinder, use_amass, probe_http, vulnerability_scan, sources and
\* threads keep their defaults.
ScanRequests ==
    [mode : {"passive", "active", "both", "modern"},
     wordlist : {None, "wordlists/big.txt"},
     enable_modern_enum : BOOLEAN,
     enable_fingerprint : BOOLEAN,
     enable_threat : BOOLEAN,
     enable_takeover : BOOLEAN]

\* ScanRequest(domain=..., mode=m): every other field at its default
default_request(mode) ==
    [mode |-> mode, wordlist |-> None, enable_modern_enum |-> TRUE,
     enable_fingerprint |-> FALSE, enable_threat |-> FALSE, enable_takeover |-> FALSE]

\* What ModernEnumerator() and comprehensive_enum do in this run: the
\* constructor raises where the `which` executable is missing, otherwise the
\* sorted subdomains and whether httpx reported a live host
ModernOutcomes ==
    {[raised |-> TRUE, subdomains |-> <<>>, live |-> FALSE]} \cup
    [raised : {FALSE},
     subdomains : {<<>>, <<"api.example.com">>},
     live : BOOLEAN]

\* What passive_enum returns in this run
PassiveOutcomes == {<<>>, <<"api.example.com">>, <<"api.example.com", "www.example.com">>}

ScanEnvs ==
    {e \in [modern : ModernOutcomes, passive : PassiveOutcomes, insert_raises : BOOLEAN] :
        e.modern.live => e.modern.subdomains # <<>>}

\* f"scan_{datetime.now().strftime('%Y%m%d_%H%M%S')}_{request.domain}"
scan_id == "scan_" \o format_timestamp(1) \o "_" \o Domain

\* db.scans.update_one({"_id": scan_id}, {"$set": fields})
update_one(collection, id, fields) ==
    IF id \in DOMAIN collection
    THEN [collection EXCEPT ![id] =
            [f \in DOMAIN @ \cup DOMAIN fields |->
                IF f \in DOMAIN fields THEN fields[f] ELSE @[f]]]
    ELSE collection

\* The except branch of run_scan_task
task_failed(collection, error) ==
    update_one(collection, scan_id, [status |-> "failed", error |-> error])

ServerInit ==
    /\ s_pc = "create"
    /\ request \in ScanRequests
    /\ s_env \in ScanEnvs
    /\ s_task = [all_subdomains |-> <<>>, sources |-> <<>>, live_subdomains |-> FALSE,
                 modern_count |-> 0, passive_count |-> 0, active_count |-> 0]
    /\ scans = <<>>
    /\ s_hist = [invoked |-> {}, raised |-> {}]

\* POST /api/scan: insert the scan document and queue the task
create_scan ==
    /\ s_pc = "create"
    /\ scans' = [id \in {scan_id} |->
                    [status |-> "queued", progress |-> 0, total_subdomains |-> 0,
                     current_step |-> None, error |-> None, results |-> None]]
    /\ s_pc' = "start"
    /\ UNCHANGED <<request, s_env, s_task, s_hist>>
    /\ UNCHANGED <<p_vars, a_vars, t_vars, m_vars, g_vars, d_vars, b_vars, w_vars, u_vars, e_vars>>

\* run_scan_task: status running, progress 0
task_start ==
    /\ s_pc = "start"
    /\ scans' = update_one(scans, scan_id, [status |-> "running", progress |-> 0])
    /\ s_pc' = "modern"
    /\ UNCHANGED <<request, s_env, s_task, s_hist>>
    /\ UNCHANGED <<p_vars, a_vars, t_vars, m_vars, g_vars, d_vars, b_vars, w_vars, u_vars, e_vars>>

\* if request.enable_modern_enum and request.mode in ["modern", "both"]: the
\* inner try, whose except prints and goes on
task_modern ==
    /\ s_pc = "modern"
    /\ IF request.enable_modern_enum /\ request.mode \in {"modern", "both"}
       THEN /\ scans' = update_one(scans, scan_id,
                            [progress |-> 10, current_step |-> "modern enumeration"])
            /\ IF s_env.modern.raised
               THEN /\ UNCHANGED s_task
                    /\ s_hist' = [s_hist EXCEPT !.invoked = @ \cup {"modern"},
                                                !.raised = @ \cup {"modern"}]
               ELSE /\ s_task' = [s_task EXCEPT
                            !.all_subdomains = @ \o s_env.modern.subdomains,
                            !.modern_count = Len(s_env.modern.subdomains),
                            !.live_subdomains = s_env.modern.live,
                            !.sources = [h \in DOMAIN @ \cup Range(s_env.modern.subdomains) |->
                                            IF h \in Range(s_env.modern.subdomains)
                                            THEN "modern" ELSE @[h]]]
                    /\ s_hist' = [s_hist EXCEPT !.invoked = @ \cup {"modern"}]
       ELSE UNCHANGED <<scans, s_task, s_hist>>
    /\ s_pc' = "passive"
    /\ UNCHANGED <<request, s_env>>
    /\ UNCHANGED <<p_vars, a_vars, t_vars, m_vars, g_vars, d_vars, b_vars, w_vars, u_vars, e_vars>>

\* if request.mode in ["passive", "both"] and not request.enable_modern_enum
task_passive ==
    /\ s_pc = "passive"
    /\ IF request.mode \in {"passive", "both"} /\ ~request.enable_modern_enum
       THEN /\ scans' = update_one(scans, scan_id,
                            [progress |-> 20, current_step |-> "passive enumeration"])
            /\ s_task' = [s_task EXCEPT
                            !.all_subdomains = @ \o s_env.passive,
                            !.passive_count = Len(s_env.passive),
                            !.sources = mark_passive(@, s_env.passive)]
            /\ s_hist' = [s_hist EXCEPT !.invoked = @ \cup {"passive"}]
       ELSE UNCHANGED <<scans, s_task, s_hist>>
    /\ s_pc' = "active"
    /\ UNCHANGED <<request, s_env>>
    /\ UNCHANGED <<p_vars, a_vars, t_vars, m_vars, g_vars, d_vars, b_vars, w_vars, u_vars, e_vars>>

\* if request.mode in ["active", "both"] and request.wordlist and not
\* request.enable_modern_enum:
\*     active_results = active_enum(domain, request.wordlist, threads=request.threads)
\* The TypeError of the call reaches the except branch of the task.
task_active ==
    /\ s_pc = "active"
    /\ IF request.mode \in {"active", "both"} /\ truthy(request.wordlist)
            /\ ~request.enable_modern_enum
       THEN IF call_raises(active_enum_parameters, 2, {"threads"})
            THEN /\ scans' = task_failed(
                        update_one(scans, scan_id,
                            [progress |-> 40, current_step |-> "active enumeration"]),
                        "active_enum() got an unexpected keyword argument 'threads'")
                 /\ s_hist' = [s_hist EXCEPT !.raised = @ \cup {"active"}]
                 /\ s_pc' = "done"
            ELSE /\ scans' = update_one(scans, scan_id,
                            [progress |-> 40, current_step |-> "active enumeration"])
                 /\ s_hist' = [s_hist EXCEPT !.invoked = @ \cup {"active"}]
                 /\ s_pc' = "dedup"
       ELSE /\ UNCHANGED <<scans, s_hist>>
            /\ s_pc' = "dedup"
    /\ UNCHANGED <<request, s_env, s_task>>
    /\ UNCHANGED <<p_vars, a_vars, t_vars, m_vars, g_vars, d_vars, b_vars, w_vars, u_vars, e_vars>>

\* all_subdomains = deduplicate_subdomains(all_subdomains); progress 60
task_dedup ==
    /\ s_pc = "dedup"
    /\ LET deduplicated == deduplicate_subdomains(s_task.all_subdomains)
       IN  /\ s_task' = [s_task EXCEPT !.all_subdomains = deduplicated]
           /\ scans' = update_one(scans, scan_id,
                            [progress |-> 60, total_subdomains |-> Len(deduplicated),
                             current_step |-> "analysis"])
    /\ s_pc' = "fingerprint"
    /\ UNCHANGED <<request, s_env, s_hist>>
    /\ UNCHANGED <<p_vars, a_vars, t_vars, m_vars, g_vars, d_vars, b_vars, w_vars, u_vars, e_vars>>

\* if request.enable_fingerprint and all_subdomains and not
\* scan_data.get('live_subdomains'); the pool has threads=10
task_fingerprint ==
    /\ s_pc = "fingerprint"
    /\ IF request.enable_fingerprint /\ s_task.all_subdomains # <<>>
            /\ ~s_task.live_subdomains
       THEN scans' = update_one(scans, scan_id,
                            [progress |-> 70, current_step |-> "fingerprinting"])
       ELSE UNCHANGED scans
    /\ s_pc' = "threat"
    /\ UNCHANGED <<request, s_env, s_task, s_hist>>
    /\ UNCHANGED <<p_vars, a_vars, t_vars, m_vars, g_vars, d_vars, b_vars, w_vars, u_vars, e_vars>>

\* if request.enable_threat and all_subdomains and not
\* scan_data.get('vulnerabilities'); vulnerability_scan is off, so
\* vulnerabilities is empty; the pool has threads=5
task_threat ==
    /\ s_pc = "threat"
    /\ IF request.enable_threat /\ s_task.all_subdomains # <<>>
       THEN scans' = update_one(scans, scan_id,
                            [progress |-> 80, current_step |-> "threat intelligence"])
       ELSE UNCHANGED scans
    /\ s_pc' = "takeover"
    /\ UNCHANGED <<request, s_env, s_task, s_hist>>
    /\ UNCHANGED <<p_vars, a_vars, t_vars, m_vars, g_vars, d_vars, b_vars, w_vars, u_vars, e_vars>>

\* if request.enable_takeover and all_subdomains: scan_takeover(..., threads=10)
task_takeover ==
    /\ s_pc = "takeover"
    /\ IF request.enable_takeover /\ s_task.all_subdomains # <<>>
       THEN scans' = update_one(scans, scan_id,
                            [progress |-> 90, current_step |-> "takeover detection"])
       ELSE UNCHANGED scans
    /\ s_pc' = "store"
    /\ UNCHANGED <<request, s_env, s_task, s_hist>>
    /\ UNCHANGED <<p_vars, a_vars, t_vars, m_vars, g_vars, d_vars, b_vars, w_vars, u_vars, e_vars>>

\* Save results to database: status completed, progress 100
task_store ==
    /\ s_pc = "store"
    /\ scans' = update_one(scans, scan_id,
                    [status |-> "completed", progress |-> 100, results |-> "scan_data",
                     total_subdomains |-> Len(s_task.all_subdomains)])
    /\ s_pc' = "insert"
    /\ UNCHANGED <<request, s_env, s_task, s_hist>>
    /\ UNCHANGED <<p_vars, a_vars, t_vars, m_vars, g_vars, d_vars, b_vars, w_vars, u_vars, e_vars>>

\* for subdomain in all_subdomains: await db.subdomains.insert_one(...); an
\* insert that raises is still inside the try of the task
task_insert ==
    /\ s_pc = "insert"
    /\ IF s_env.insert_raises /\ s_task.all_subdomains # <<>>
       THEN /\ scans' = task_failed(scans, "insert_one failed")
            /\ s_hist' = [s_hist EXCEPT !.raised = @ \cup {"insert"}]
       ELSE UNCHANGED <<scans, s_hist>>
    /\ s_pc' = "done"
    /\ UNCHANGED <<request, s_env, s_task>>
    /\ UNCHANGED <<p_vars, a_vars, t_vars, m_vars, g_vars, d_vars, b_vars, w_vars, u_vars, e_vars>>

ServerNext ==
    \/ create_scan \/ task_start \/ task_modern \/ task_passive \/ task_active
    \/ task_dedup \/ task_fingerprint \/ task_threat \/ task_takeover
    \/ task_store \/ task_insert

InitServer ==
    PassiveIdle /\ ActiveIdle /\ TakeoverIdle /\ MainIdle /\ MergeIdle /\ ChangesIdle
    /\ BatchIdle /\ ServerInit /\ BroadcastIdle /\ DedupIdle /\ EnrichIdle

\* One scan of the API, from POST /api/scan to the end of its task
SpecServer == InitServer /\ [][ServerNext]_vars

(***************************************************************************)
(* backend/websocket_manager.py: broadcast_to_scan_subscribers             *)
(***************************************************************************)
\* Most clients subscribed to the scan.
MaxClients == 3

Clients == {"client-" \o ToString(n) : n \in 1..MaxClients}

\* Lists of distinct client ids, as subscribe_to_scan builds them
SubscriberLists ==
    {l \in UNION {[1..n -> Clients] : n \in 1..MaxClients} :
        \A i \in 1..Len(l) : \A j \in 1..Len(l) : l[i] = l[j] => i = j}

\* list.remove(x)
list_remove(list, x) == SelectSeq(list, LAMBDA y : y # x)

\* disconnect(client_id) on scan_subscriptions: the client leaves every
\* list, and a list left empty is deleted
disconnect_subscriptions(subscriptions, client_id) ==
    LET removed == [id \in DOMAIN subscriptions |-> list_remove(subscriptions[id], client_id)]
    IN  [id \in {k \in DOMAIN subscriptions : removed[k] # <<>>} |-> removed[id]]

BroadcastInit ==
    /\ w_pc = "call"
    /\ \E subscribed \in BOOLEAN : \E l \in SubscriberLists :
        /\ scan_subscriptions = IF subscribed THEN [id \in {scan_id} |-> l] ELSE <<>>
        /\ \E others \in SUBSET Clients :
                active_connections = IF subscribed THEN Range(l) \cup others ELSE others
        /\ w_hist = [subscribed |-> IF subscribed THEN Range(l) ELSE {},
                     attempted |-> {}, received |-> {}]
    /\ w_env \in SUBSET Clients
    /\ w_i = 0

\* if scan_id in self.scan_subscriptions: the for loop takes an iterator
\* over the list
broadcast_call ==
    /\ w_pc = "call"
    /\ w_pc' = IF scan_id \in DOMAIN scan_subscriptions THEN "loop" ELSE "done"
    /\ w_i' = 0
    /\ UNCHANGED <<active_connections, scan_subscriptions, w_env, w_hist>>
    /\ UNCHANGED <<p_vars, a_vars, t_vars, m_vars, g_vars, d_vars, b_vars, s_vars, u_vars, e_vars>>

\* The list the iterator walks: the list object of the key, which
\* disconnect empties before it deletes the key
iterated_list ==
    IF scan_id \in DOMAIN scan_subscriptions THEN scan_subscriptions[scan_id] ELSE <<>>

\* One iteration: await self.send_json_message(data, client_id), whose except
\* branch calls self.disconnect(client_id); the iterator then moves on by one
broadcast_send ==
    /\ w_pc = "loop"
    /\ w_i < Len(iterated_list)
    /\ LET client_id == iterated_list[w_i + 1]
       IN  /\ w_hist' = [w_hist EXCEPT
                    !.attempted = @ \cup {client_id},
                    !.received = IF client_id \in active_connections /\ client_id \in w_env
                                 THEN @ \cup {client_id} ELSE @]
           /\ IF client_id \in active_connections /\ client_id \notin w_env
              THEN /\ active_connections' = active_connections \ {client_id}
                   /\ scan_subscriptions' =
                        disconnect_subscriptions(scan_subscriptions, client_id)
              ELSE UNCHANGED <<active_connections, scan_subscriptions>>
    /\ w_i' = w_i + 1
    /\ UNCHANGED <<w_pc, w_env>>
    /\ UNCHANGED <<p_vars, a_vars, t_vars, m_vars, g_vars, d_vars, b_vars, s_vars, u_vars, e_vars>>

\* The iterator is exhausted; disconnected_clients is empty, because
\* send_json_message catches what the send raises
broadcast_end ==
    /\ w_pc = "loop"
    /\ w_i >= Len(iterated_list)
    /\ w_pc' = "done"
    /\ UNCHANGED <<active_connections, scan_subscriptions, w_env, w_i, w_hist>>
    /\ UNCHANGED <<p_vars, a_vars, t_vars, m_vars, g_vars, d_vars, b_vars, s_vars, u_vars, e_vars>>

BroadcastNext == broadcast_call \/ broadcast_send \/ broadcast_end

InitBroadcast ==
    PassiveIdle /\ ActiveIdle /\ TakeoverIdle /\ MainIdle /\ MergeIdle /\ ChangesIdle
    /\ BatchIdle /\ ServerIdle /\ BroadcastInit /\ DedupIdle /\ EnrichIdle

\* One broadcast_to_scan_subscribers call
SpecBroadcast == InitBroadcast /\ [][BroadcastNext]_vars

(***************************************************************************)
(* utils.py: deduplicate_subdomains on a list and on a rearranged copy     *)
(***************************************************************************)
\* Longest list given to deduplicate_subdomains.
MaxDedup == 3

\* Hostnames as the enumerators hand them over: any case, padded or not;
\* the empty string is what `if s` drops.
RawNames == {"api.example.com", "API.Example.com", " www.example.com ", ""}

occurrences(x, list) == Cardinality({i \in 1..Len(list) : list[i] = x})

\* P is L rearranged, with or without one more copy of one of its elements
rearranged(L, P) ==
    /\ Len(P) \in {Len(L), Len(L) + 1}
    /\ Range(P) = Range(L)
    /\ \A x \in Range(L) : occurrences(x, P) >= occurrences(x, L)

DedupInit ==
    /\ u_pc = "first"
    /\ \E L \in UNION {[1..n -> RawNames] : n \in 0..MaxDedup} :
       \E P \in UNION {[1..n -> Range(L)] : n \in {Len(L), Len(L) + 1}} :
            /\ rearranged(L, P)
            /\ u_in = [L |-> L, P |-> P]
    /\ u_out = [once |-> <<>>, copy |-> <<>>, twice |-> <<>>]

\* deduplicate_subdomains(L) and deduplicate_subdomains(P)
dedup_first ==
    /\ u_pc = "first"
    /\ u_out' = [u_out EXCEPT !.once = deduplicate_subdomains(u_in.L),
                              !.copy = deduplicate_subdomains(u_in.P)]
    /\ u_pc' = "second"
    /\ UNCHANGED u_in
    /\ UNCHANGED <<p_vars, a_vars, t_vars, m_vars, g_vars, d_vars, b_vars, s_vars, w_vars, e_vars>>

\* deduplicate_subdomains on its own result
dedup_second ==
    /\ u_pc = "second"
    /\ u_out' = [u_out EXCEPT !.twice = deduplicate_subdomains(u_out.once)]
    /\ u_pc' = "done"
    /\ UNCHANGED u_in
    /\ UNCHANGED <<p_vars, a_vars, t_vars, m_vars, g_vars, d_vars, b_vars, s_vars, w_vars, e_vars>>

DedupNext == dedup_first \/ dedup_second

InitDedup ==
    PassiveIdle /\ ActiveIdle /\ TakeoverIdle /\ MainIdle /\ MergeIdle /\ ChangesIdle
    /\ BatchIdle /\ ServerIdle /\ BroadcastIdle /\ DedupInit /\ EnrichIdle

\* deduplicate_subdomains for every list and every rearranged copy
SpecDedup == InitDedup /\ [][DedupNext]_vars

(***************************************************************************)
(* main.py: the enrichment passes and their worker pools                   *)
(***************************************************************************)
\* Largest -t given on the command line.
MaxThreads == 4

\* -t/--threads (type=int) from 1 up, --fingerprint, --threat, --takeover
EnrichArgs ==
    [threads : 1..MaxThreads, fingerprint : BOOLEAN, threat : BOOLEAN, takeover : BOOLEAN]

\* threads // 2 for a positive threads
pool_width(threads) == threads \div 2

\* ThreadPoolExecutor(max_workers=n) raises ValueError when n <= 0
executor_raises(max_workers) == max_workers <= 0

EnrichInit ==
    /\ e_pc = "fingerprint"
    /\ e_args \in EnrichArgs
    /\ e_subs \in {<<>>, <<"api.example.com">>, <<"api.example.com", "www.example.com">>}
    /\ e_hist = <<>>

\* One pass that starts a pool of the given width, or is skipped
enrich_pass(name, enabled, max_workers, next) ==
    /\ e_pc = name
    /\ IF enabled /\ e_subs # <<>>
       THEN IF executor_raises(max_workers)
            THEN /\ e_pc' = "fatal"
                 /\ UNCHANGED e_hist
            ELSE /\ e_pc' = next
                 /\ e_hist' = Append(e_hist, [pass |-> name, max_workers |-> max_workers])
       ELSE /\ e_pc' = next
            /\ UNCHANGED e_hist
    /\ UNCHANGED <<e_args, e_subs>>
    /\ UNCHANGED <<p_vars, a_vars, t_vars, m_vars, g_vars, d_vars, b_vars, s_vars, w_vars, u_vars>>

\* if args.fingerprint and all_subdomains:
\*     fingerprint_subdomains(to_fingerprint, threads=args.threads // 2)
enrich_fingerprint ==
    /\ e_pc = "fingerprint"
    /\ enrich_pass("fingerprint", e_args.fingerprint, pool_width(e_args.threads), "threat")

\* if args.threat and all_subdomains: enrich_subdomains(to_enrich, threads=5)
enrich_threat ==
    /\ e_pc = "threat"
    /\ enrich_pass("threat", e_args.threat, 5, "takeover")

\* if args.takeover and all_subdomains:
\*     scan_takeover(all_subdomains, threads=args.threads // 2)
enrich_takeover ==
    /\ e_pc = "takeover"
    /\ enrich_pass("takeover", e_args.takeover, pool_width(e_args.threads), "done")

EnrichNext == enrich_fingerprint \/ enrich_threat \/ enrich_takeover

InitEnrich ==
    PassiveIdle /\ ActiveIdle /\ TakeoverIdle /\ MainIdle /\ MergeIdle /\ ChangesIdle
    /\ BatchIdle /\ ServerIdle /\ BroadcastIdle /\ DedupIdle /\ EnrichInit

\* The enrichment passes of one run of main()
SpecEnrich == InitEnrich /\ [][EnrichNext]_vars

(***************************************************************************)
(* Properties of passive_enum                                              *)
(***************************************************************************)
\* h is domain or a proper subdomain of it, at a label boundary
is_subdomain_of(h, domain) == h = domain \/ endswith(h, "." \o domain)

\* C1: suffix safety. A raw hostname a passive source reported is in the
\* output of passive_enum(Domain) only if it equals Domain or ends with
\* "." + Domain; evilexample.com never is.
C1_SuffixSafety ==
    p_pc = "done" =>
        /\ \A h \in p_reported : h \in Range(p_result) => is_subdomain_of(h, Domain)
        /\ "evilexample.com" \notin Range(p_result)

\* C2: partial-failure tolerance. passive_enum returns exactly the (sorted)
\* union of the hostnames of the sources that did not fail, whichever
\* sources failed.
C2_PartialFailure ==
    p_pc = "done" => p_result = sorted(p_okUnion)

\* C11: wildcard rejection. No hostname of the output holds a '*', and a raw
\* candidate holding a '*' is discarded, not rewritten: when every candidate
\* the sources reported holds a '*', the output is empty.
C11_WildcardRejection ==
    p_pc = "done" =>
        /\ \A h \in Range(p_result) : ~contains(h, "*")
        /\ (\A h \in p_reported : contains(h, "*")) => p_result = <<>>

\* C14: cooperative cancellation. A pass that is cancelled while it runs
\* returns the partial set it has accumulated so far.
C14_CooperativeCancellation ==
    p_pc = "interrupted" => p_result = sorted(all_subs)

(***************************************************************************)
(* Properties of check_subdomain_takeover                                  *)
(***************************************************************************)
\* C5: takeover special case. A hostname with a CNAME and no IP address gets
\* confidence at least medium and the evidence entry "CNAME exists but
\* doesn't resolve to IP", whether or not the CNAME matches a fingerprint.
C5_CnameWithoutIp ==
    (t_pc = "done" /\ truthy(result.cname) /\ ~truthy(result.ip))
        => /\ rank(result.confidence) >= rank("medium")
           /\ "CNAME exists but doesn't resolve to IP" \in Range(result.evidence)

\* The responses requests.get returned during this run
received == {t_hist[i].outcome : i \in {j \in 1..Len(t_hist) : t_hist[j].outcome.kind = "response"}}

\* The table rows one of whose cname patterns is in the CNAME, lower-cased
matching_rows(cname) ==
    {k \in 1..Len(TAKEOVER_FINGERPRINTS) : any_in(TAKEOVER_FINGERPRINTS[k].cname, lower(cname))}

confirmed_as(k) ==
    /\ result.vulnerable
    /\ result.confidence = "high"
    /\ result.service = TAKEOVER_FINGERPRINTS[k].service

\* C6 as stated: content confirmation for every service S one of whose
\* cname patterns the CNAME contains and one of whose unclaimed-resource
\* patterns the received body contains.
C6_ContentConfirmedAnyService ==
    (t_pc = "done" /\ truthy(result.cname)) =>
        \A k \in matching_rows(result.cname) : \A response \in received :
            any_in(TAKEOVER_FINGERPRINTS[k].response, response.text) => confirmed_as(k)

\* C6 amended: content confirmation for the first service S, in table order,
\* one of whose cname patterns the CNAME contains.
C6_ContentConfirmedFirstService ==
    (t_pc = "done" /\ truthy(result.cname) /\ matching_rows(result.cname) # {}) =>
        LET k == Min(matching_rows(result.cname))
        IN  \A response \in received :
                any_in(TAKEOVER_FINGERPRINTS[k].response, response.text) => confirmed_as(k)

\* C6 witness: the S3 website CNAME with a NoSuchBucket body is AWS S3, high.
C6_Witness ==
    /\ t_pc = "done"
    /\ result.cname = "foo.s3-website-us-east-1.amazonaws.com"
    /\ \E response \in received : response.text = "<Code>NoSuchBucket</Code>"
    /\ result.vulnerable /\ result.confidence = "high" /\ result.service = "AWS S3"

\* C7: monotonic confidence. No step of a run assigns confidence a value
\* below the one it holds (none < low < medium < high).
C7_MonotonicConfidence ==
    [][rank(result'.confidence) >= rank(result.confidence)]_vars

\* C7 witness: an SSL error on https, then an unrelated page on http, and
\* the confidence is still medium.
C7_Witness ==
    /\ t_pc = "done"
    /\ Len(t_hist) = 2
    /\ t_hist[1].outcome.kind = "ssl_error"
    /\ t_hist[2].outcome = [kind |-> "response", status_code |-> 200, text |-> "Welcome"]
    /\ result.confidence = "medium"

\* The last requests.get of the step just taken raised SSLError on https
https_ssl_error_step ==
    /\ t_pc = "https"
    /\ Len(t_hist') = Len(t_hist) + 1
    /\ t_hist'[Len(t_hist')].outcome.kind = "ssl_error"

no_pattern_of(k, text) ==
    \A i \in 1..Len(TAKEOVER_FINGERPRINTS[k].response) :
        ~contains(lower(text), lower(TAKEOVER_FINGERPRINTS[k].response[i]))

\* C16: ambiguous 404. With a fingerprinted CNAME, a received response of
\* status 404 whose body holds none of the service's patterns gives
\* confidence medium, vulnerable false and an evidence entry for the 404.
C16_Ambiguous404 ==
    (t_pc = "done" /\ truthy(result.cname) /\ matching_rows(result.cname) # {}) =>
        \A response \in received :
            (response.status_code = 404
                /\ no_pattern_of(Min(matching_rows(result.cname)), response.text)) =>
                    /\ result.confidence = "medium"
                    /\ ~result.vulnerable
                    /\ "404 response with service CNAME" \in Range(result.evidence)
                    /\ result.status_code = 404

\* C16 witness: the GitHub Pages CNAME and a 404 page without the pattern.
C16_Witness ==
    /\ t_pc = "done"
    /\ result.cname = "Shop.GitHub.IO"
    /\ t_hist = <<[protocol |-> "https",
                   outcome |-> [kind |-> "response", status_code |-> 404, text |-> "Welcome"]]>>
    /\ result.confidence = "medium"
    /\ ~result.vulnerable

C25_FetchOrder ==
    /\ Len(t_hist) <= 2
    /\ t_hist # <<>> => t_hist[1].protocol = "https"
    /\ Len(t_hist) = 2 =>
            (t_hist[2].protocol = "http" /\ t_hist[1].outcome.kind # "response")
    /\ Cardinality({i \in 1..Len(t_hist) : t_hist[i].outcome.kind = "response"}) <= 1
    /\ (t_pc = "done" /\ truthy(result.service)) => t_hist # <<>>
    /\ (t_pc = "done" /\ t_hist # <<>> /\ t_hist[1].outcome.kind # "response") =>
            Len(t_hist) = 2

\* C25 witness: https fails with a TLS error, http answers.
C25_Witness ==
    /\ t_pc = "done"
    /\ Len(t_hist) = 2
    /\ t_hist[1].outcome.kind = "ssl_error"
    /\ t_hist[2].outcome.kind = "response"

count_of(sub, list) == Cardinality({i \in 1..Len(list) : list[i] = sub})

\* Two assessments agree field by field (status_code is None or a number)
same_assessment(x, y) ==
    /\ x.subdomain = y.subdomain /\ x.vulnerable = y.vulnerable
    /\ x.confidence = y.confidence /\ x.service = y.service
    /\ x.cname = y.cname /\ x.ip = y.ip /\ x.evidence = y.evidence
    /\ ToString(x.status_code) = ToString(y.status_code)

C4_NeverRaises ==
    (m_pc # "parse" /\ m_args.mode = "both" /\ truthy(m_scan.wordlist)) =>
        /\ m_pc # "fatal"
        /\ m_pc \in {"changes", "save"} =>
            Range(m_scan.passive_results) \subseteq Range(m_scan.all_subdomains)

\* C8: the most recent prior snapshot. When every scan so far ran with
\* change detection and saving, the previous list detect_changes used in
\* this scan is the list the last save_results wrote.
C8_MostRecentSnapshot ==
    (m_pc = "save" /\ m_scan.detected /\ m_hist.all_enabled /\ m_hist.saved) =>
        /\ m_scan.change_data.has_previous
        /\ m_scan.previous = m_hist.last_saved

(***************************************************************************)
(* Properties of the merge of main()                                       *)
(***************************************************************************)
\* The methods a provenance value of scan_data['sources'] names
methods(v) == {v}

reported_in_scan == g_in.reported \cup Range(g_in.active_results)

\* C13: case invariance. Two reported hostnames that differ only in letter
\* case are exactly one entry of the final list, the lower-case one.
C13_CaseInvariance ==
    g_pc = "done" =>
        \A x \in reported_in_scan : \A y \in reported_in_scan :
            (x # y /\ lower(x) = lower(y)) =>
                /\ Cardinality({i \in 1..Len(all_subdomains) :
                                    lower(all_subdomains[i]) = lower(x)}) = 1
                /\ lower(x) \in Range(all_subdomains)

(***************************************************************************)
(* Properties of calculate_diff and detect_changes                         *)
(***************************************************************************)
\* list holds each of its elements once, in sorted order
strictly_sorted(list) == \A i \in 1..(Len(list) - 1) : str_less(list[i], list[i + 1])

\* C19: the change diff is set algebra. A hostname is added exactly when it
\* is in current and not in previous, removed exactly when it is in previous
\* and not in current, unchanged exactly when it is in both; so diff(A, A)
\* has added and removed empty and unchanged = A.
C19_DiffSetAlgebra ==
    d_pc \in {"detect", "done"} =>
        LET previous == Range(d_in.previous)
            current == Range(d_in.current_subdomains)
        IN  /\ \A h \in previous \cup current \cup Range(d_out.diff.added)
                    \cup Range(d_out.diff.removed) \cup Range(d_out.diff.unchanged) :
                /\ h \in Range(d_out.diff.added) <=> (h \in current /\ h \notin previous)
                /\ h \in Range(d_out.diff.removed) <=> (h \in previous /\ h \notin current)
                /\ h \in Range(d_out.diff.unchanged) <=> (h \in previous /\ h \in current)
            /\ strictly_sorted(d_out.diff.added)
            /\ strictly_sorted(d_out.diff.removed)
            /\ strictly_sorted(d_out.diff.unchanged)
            /\ previous = current =>
                /\ d_out.diff.added = <<>> /\ d_out.diff.removed = <<>>
                /\ Range(d_out.diff.unchanged) = previous

\* C19 witness: diff(A, A + x) has added = x.
C19_Witness ==
    /\ d_pc = "done"
    /\ d_in.previous = <<"api.example.com">>
    /\ d_in.current_subdomains = <<"www.example.com", "api.example.com">>
    /\ d_out.diff = [added |-> <<"www.example.com">>, removed |-> <<>>,
                     unchanged |-> <<"api.example.com">>]

\* No snapshot of the domain is there, or the latest cannot be loaded
no_previous_snapshot == d_in.kind \in {"empty", "other", "unreadable"}

\* C20: without a previous snapshot the report has has_previous
\* false and every other field empty or zero.
C20_NoPreviousAllZero ==
    (d_pc = "done" /\ no_previous_snapshot) =>
        /\ ~d_out.change_data.has_previous
        /\ d_out.change_data.added = <<>>
        /\ d_out.change_data.removed = <<>>
        /\ d_out.change_data.unchanged = <<>>
        /\ d_out.change_data.previous_count = 0
        /\ d_out.change_data.current_count = 0
        /\ d_out.change_data.previous_file = None


(***************************************************************************)
(* Properties of active_enum                                               *)
(***************************************************************************)
\* C3: bulk fallback. When dnsx is selected and yields nothing (it failed to
\* run, or ran and printed nothing), active_enum returns what the concurrent
\* strategy returns on the same candidates.
C3_BulkFallback ==
    (/\ a_pc = "done"
     /\ a_tool # "unused"
     /\ resolve_with_dnsx(subdomains, a_tool = "ran", a_env.resolvable) = <<>>)
        => live_subs = resolve_concurrently(subdomains, a_env.resolvable)

\* The candidate set the wordlist entries stand for: trimmed, lower-cased,
\* blank and # entries skipped.
spec_candidates(lines, domain) ==
    {lower(strip(e)) \o "." \o domain :
        e \in {x \in Range(lines) : strip(x) # "" /\ ~startswith(strip(x), "#")}}

\* C9: candidate generation. The candidates active_enum builds are exactly
\* lower(trim(e)) + "." + Domain for the entries e that are neither blank
\* nor comments.
C9_CandidateGeneration ==
    (a_pc \in {"select", "pool", "done"} /\ a_file.kind = "ok")
        => Range(subdomains) = spec_candidates(a_file.lines, Domain)

\* C10: resolved-only subset. Every hostname active_enum returns is a
\* generated candidate that resolves, under the dnsx and the concurrent
\* strategy; when www.example.com is a candidate and the only name that
\* resolves, the result is exactly {www.example.com}.
C10_ResolvedOnlySubset ==
    (a_pc = "done" /\ a_file.kind = "ok") =>
        /\ \A h \in Range(live_subs) :
            h \in Range(subdomains) /\ resolves(h, a_env.resolvable)
        /\ ("www.example.com" \in Range(subdomains)
                /\ a_env.resolvable = {"www.example.com"})
            => Range(live_subs) = {"www.example.com"}

\* C22: empty or unreadable wordlist. When the wordlist file is missing,
\* cannot be read, or holds no usable entry, active_enum does not raise and
\* ends with an empty candidate list and an empty result.
C22_EmptyWordlist ==
    (/\ a_pc \in {"done", "raised"}
     /\ \/ a_file.kind \in {"missing", "unreadable"}
        \/ read_words(a_file.lines) = <<>>)
        => (a_pc = "done" /\ subdomains = <<>> /\ live_subs = <<>>)

\* C23: deterministic resolution output. The list active_enum returns is in
\* ascending order without duplicates, whatever the wordlist order, its
\* repeated entries, the completion order and the strategy.
C23_SortedOutput ==
    a_pc = "done" => strictly_sorted(live_subs)

(***************************************************************************)
(* Properties of deduplicate_subdomains                                    *)
(***************************************************************************)
\* C24: dedup is idempotent and order-independent. Deduplicating the result
\* again gives the same list, and a rearranged or repetition-extended copy
\* of the input gives the same list as the input.
C24_DedupIdempotent ==
    /\ u_pc = "done" => u_out.twice = u_out.once
    /\ u_pc \in {"second", "done"} => u_out.copy = u_out.once

\* C24 witness: two spellings in either order, one of them repeated.
C24_Witness ==
    /\ u_pc = "done"
    /\ u_in.L = <<" www.example.com ", "API.Example.com">>
    /\ u_in.P = <<"API.Example.com", " www.example.com ", "API.Example.com">>
    /\ u_out.once = <<"api.example.com", "www.example.com">>

(***************************************************************************)
(* Properties of run_scan_task                                             *)
(***************************************************************************)
\* The stored record of the scan, once the task has ended
stored == scans[scan_id]

\* C21: a scan whose enumeration steps ran and found nothing is stored as
\* completed with total_subdomains 0; a scan in which a step of the task
\* raised is stored as failed with an error message.
C21_ZeroVersusFailed ==
    s_pc = "done" =>
        /\ (s_hist.raised = {} /\ s_hist.invoked # {} /\ s_task.all_subdomains = <<>>) =>
                (stored.status = "completed" /\ stored.total_subdomains = 0)
        /\ s_hist.raised # {} =>
                (stored.status = "failed" /\ stored.error # None)

\* The enumeration paths that answer to a mode
paths_of(mode) ==
    CASE mode = "passive" -> {"passive"}
      [] mode = "active" -> {"active"}
      [] mode = "modern" -> {"modern"}
      [] mode = "both" -> {"passive", "active", "modern"}

\* C29: every scan mode enumerates. For each mode, with every other option
\* at its default (and a wordlist for 'active'), a scan that is stored as
\* completed has invoked an enumeration path of its mode.
C29_EveryModeEnumerates ==
    \A mode \in {"passive", "active", "both", "modern"} :
        (/\ scan_id \in DOMAIN scans
         /\ scans[scan_id].status = "completed"
         /\ request = IF mode = "active"
                      THEN [default_request(mode) EXCEPT !.wordlist = "wordlists/big.txt"]
                      ELSE default_request(mode))
            => s_hist.invoked \cap paths_of(mode) # {}

\* A step of the stored record that the lifecycle allows
lifecycle_step ==
    scan_id \in DOMAIN scans =>
        /\ \/ scans'[scan_id].status = scans[scan_id].status
           \/ <<scans[scan_id].status, scans'[scan_id].status>> \in
                {<<"queued", "running">>, <<"running", "completed">>,
                 <<"running", "failed">>}
        /\ scans'[scan_id].progress >= scans[scan_id].progress

\* C30: scan status lifecycle. The status of the stored record moves only
\* queued -> running -> completed or failed, a record that is completed
\* stays completed, and progress never decreases.
C30_StatusLifecycle == [][lifecycle_step]_vars

(***************************************************************************)
(* Properties of broadcast_to_scan_subscribers                             *)
(***************************************************************************)
\* C26: the scan broadcast reaches all subscribers. When the call has ended,
\* delivery was attempted to every client subscribed at the call, and every
\* subscriber whose connection accepts the send has received the message,
\* whatever happened to the other subscribers.
C26_BroadcastReachesAll ==
    w_pc = "done" =>
        /\ w_hist.attempted = w_hist.subscribed
        /\ \A c \in w_hist.subscribed : c \in w_env => c \in w_hist.received

(***************************************************************************)
(* Properties of the enrichment passes of main()                           *)
(***************************************************************************)
\* C28: the worker-pool width is always positive. For every -t from 1 up,
\* the width threads // 2 that main passes on is at least 1, every pool that
\* is started has a positive width, and no pass ends the scan with an error.
C28_PoolWidthPositive ==
    /\ e_pc # "fatal"
    /\ \A i \in 1..Len(e_hist) : e_hist[i].max_workers >= 1
    /\ (e_pc = "done" /\ e_args.takeover /\ e_subs # <<>>) =>
            \E i \in 1..Len(e_hist) :
                e_hist[i] = [pass |-> "takeover", max_workers |-> pool_width(e_args.threads)]

====
